---- MODULE Spec2Model ----
(***************************************************************************)
(* The LaTeX renderer of md2latex (src/pkg/latex.go) as a state machine.   *)
(*                                                                         *)
(* Text is a sequence of characters; a character is a string: an ASCII     *)
(* character stands for itself, "LSQUO", "RSQUO" and "LDQUO" are the runes *)
(* U+2018, U+2019 and U+201C, "BACKTICK" is the byte 0x60 and "DEL" the    *)
(* byte 0x7F; "U+00E1" and the like are the runes of the preamble beyond   *)
(* ASCII.  The output sink is the sequence of characters written so far.   *)
(*                                                                         *)
(* The node tree is a function from node ids (1..N, 0 is nil) to records   *)
(* that carry the pointer fields of bf.Node (Parent, FirstChild,           *)
(* LastChild, Prev, Next) and the per-type data RenderNode reads.          *)
(***************************************************************************)
EXTENDS Integers, Sequences, FiniteSets, TLC

VARIABLES
    tree,       \* the node tree handed to Render
    Flags,      \* Renderer.Opts.Flags, the set of flags that are on
    quoted,     \* Renderer.quoted
    quoteOpen,  \* Renderer.quoteOpen
    out,        \* the io.Writer Render writes to
    cur,        \* nodeWalker.current of the walk in Render (0 when over)
    ent,        \* nodeWalker.entering
    pc,         \* "header", "walk", "footer", "done" or "panic"
    EnvQuotation, \* Renderer.Opts.EnvQuotation
    last,       \* the visitor call made last: its node and direction, the
                \* bytes it wrote, the status it returned, whether it
                \* panicked and with which message, and the quote state
                \* it started from
    Author,     \* Renderer.Opts.Author
    Languages,  \* Renderer.Opts.Languages
    made,       \* how the Renderer was made: by NewRenderer, as a
                \* composite literal or inside Run, and the EnvQuotation
                \* option its maker was given
    header,     \* the bytes RenderHeader wrote
    footer,     \* the bytes RenderFooter wrote
    HtmlBlockHandler, \* Renderer.Opts.HtmlBlockHandler: whether the handler
                \* of Exec is installed, and the values of
                \* cfg.LatexRawFiles its closure holds, by id
    prior       \* whether a render of the tree has been completed before
                \* the current one, and the output of that render

vars == <<tree, Flags, EnvQuotation, quoted, quoteOpen, out, cur, ent, pc, last,
          Author, Languages, made, header, footer, prior,
         HtmlBlockHandler>>

----------------------------------------------------------------------------
(* Bounds of the model.                                                    *)

\* Longest total text of the Text runs of one escaped document.
MaxTextLen == 3
\* Most Text runs one escaped document is cut into.
MaxRuns == 2
\* Highest heading level of a generated document.
MaxLevel == 7

----------------------------------------------------------------------------
(* Characters and strings.                                                 *)

NIL == 0

LSQUO == "LSQUO"
RSQUO == "RSQUO"
LDQUO == "LDQUO"

RECURSIVE Flatten(_)
Flatten(ss) == IF ss = <<>> THEN <<>> ELSE Head(ss) \o Flatten(Tail(ss))

HasPrefix(s, p) == Len(s) >= Len(p) /\ SubSeq(s, 1, Len(p)) = p

Chars(s) == {s[i] : i \in 1..Len(s)}

----------------------------------------------------------------------------
(* Escape.                                                                 *)

\* Fault: latexEscaper with the backslash escaped by a backslash.
latexEscaperRawBackslash ==
    ("#" :> <<"\\", "#">>) @@ ("$" :> <<"\\", "$">>) @@ ("%" :> <<"\\", "%">>) @@
    ("&" :> <<"\\", "&">>) @@
    ("\\" :> <<"\\", "\\">>) @@
    ("_" :> <<"\\", "_">>) @@ ("{" :> <<"\\", "{">>) @@ ("}" :> <<"\\", "}">>) @@
    ("~" :> <<"\\", "~">>) @@ ("'" :> <<>>)

\* latexEscaper: the escape table.  A character outside its domain maps to
\* nil; the apostrophe maps to the empty (non-nil) byte string.
latexEscaper ==
    ("#" :> <<"\\", "#">>) @@ ("$" :> <<"\\", "$">>) @@ ("%" :> <<"\\", "%">>) @@
    ("&" :> <<"\\", "&">>) @@
    ("\\" :> <<"\\", "t", "e", "x", "t", "b", "a", "c", "k", "s", "l", "a", "s", "h", "{", "}">>) @@
    ("_" :> <<"\\", "_">>) @@ ("{" :> <<"\\", "{">>) @@ ("}" :> <<"\\", "}">>) @@
    ("~" :> <<"\\", "~">>) @@ ("'" :> <<>>)

\* latexEscaper[c] == nil
escaperNil(c) == c \notin DOMAIN latexEscaper

\* The characters the apostrophe case of Escape looks for around it.
\* ("\r", "\n", " ", "\t", ".")
isBreak(c) == c \in {"\r", "\n", " ", "\t", "."}

\* The inner loop of Escape: the first index at or after i (0-based) whose
\* character has an entry in latexEscaper, or len(text).
RECURSIVE skipNormal(_, _)
skipNormal(text, i) ==
    IF i < Len(text) /\ escaperNil(text[i + 1])
    THEN skipNormal(text, i + 1)
    ELSE i

\* The switch of Escape on text[i] (0-based i), on the render state s.
escapeChar(text, i, s) ==
    LET c == text[i + 1] IN
    CASE c = "\"" ->
            IF s.quoted
            THEN [s EXCEPT !.w = @ \o <<LDQUO>>, !.quoted = FALSE]
            ELSE [s EXCEPT !.w = @ \o <<LDQUO>>, !.quoted = TRUE]
      [] c = "'" ->
            IF s.quoted
            THEN IF s.quoteOpen /\ i < Len(text)
                 THEN IF i + 1 >= Len(text)
                      THEN \* text[i+1]: index out of range
                           [s EXCEPT !.panic = TRUE]
                      ELSE IF isBreak(text[i + 2])
                           THEN [s EXCEPT !.w = @ \o <<RSQUO>>,
                                          !.quoted = FALSE, !.quoteOpen = FALSE]
                           ELSE [s EXCEPT !.quoted = FALSE, !.quoteOpen = FALSE]
                 ELSE [s EXCEPT !.w = @ \o <<LSQUO>>,
                                !.quoted = FALSE, !.quoteOpen = FALSE]
            ELSE IF i > 0
                 THEN IF isBreak(text[i])
                      THEN [s EXCEPT !.w = @ \o <<LSQUO>>,
                                     !.quoted = TRUE, !.quoteOpen = TRUE]
                      ELSE [s EXCEPT !.w = @ \o <<RSQUO>>]
                 ELSE [s EXCEPT !.w = @ \o <<LSQUO>>,
                                !.quoted = TRUE, !.quoteOpen = TRUE]
      [] OTHER -> [s EXCEPT !.w = @ \o latexEscaper[c]]

\* The outer loop of Escape from index i0 (0-based).
RECURSIVE escapeFrom(_, _, _)
escapeFrom(text, i0, s) ==
    IF i0 >= Len(text) \/ s.panic
    THEN s
    ELSE LET i  == skipNormal(text, i0)
             s1 == IF i > i0
                   THEN [s EXCEPT !.w = @ \o SubSeq(text, i0 + 1, i)]
                   ELSE s
         IN  IF i > i0 /\ i >= Len(text)
             THEN s1
             ELSE escapeFrom(text, i + 1, escapeChar(text, i, s1))

\* r.Escape(w, t) on the render state s: the bytes written to w appended,
\* the quote state as the call leaves it, and whether the call panicked.
Escape(s, t) == escapeFrom(t, 0, s)

----------------------------------------------------------------------------
(* Nodes and the tree walk.                                                *)

\* The node types of bf.NodeType that occur in a tree.
NodeTypes ==
    {"Document", "BlockQuote", "List", "Item", "Paragraph", "Heading",
     "HorizontalRule", "Emph", "Strong", "Del", "Link", "Image", "Text",
     "HTMLBlock", "CodeBlock", "Softbreak", "Hardbreak", "Code", "HTMLSpan",
     "Table", "TableCell", "TableHead", "TableBody", "TableRow"}

\* A bf.Node with every field at its zero value.  TitleNil tells whether
\* LinkData.Title is a nil slice.  Of a cell's TableCellData.Opts, OptsNil
\* tells whether the map is nil, OptsWidth is the decimal under "width" as
\* it prints (empty when absent or zero) and OptsSep the boolean under
\* "sep" or "absent".  CellIsLast is TableCellData.IsLast, RowIsLast is
\* TableRowData.IsLast.
Node(type) ==
    [Type |-> type,
     Parent |-> NIL, FirstChild |-> NIL, LastChild |-> NIL,
     Prev |-> NIL, Next |-> NIL,
     Literal |-> <<>>,
     Level |-> 0, IsTitleblock |-> FALSE, Config |-> <<>>,
     Destination |-> <<>>, Title |-> <<>>, TitleNil |-> TRUE,
     NoteID |-> 0, Footnote |-> NIL,
     ListFlags |-> {}, IsFootnotesList |-> FALSE,
     Info |-> <<>>,
     Border |-> [Left |-> FALSE, Rigth |-> FALSE, Top |-> FALSE,
                 Bottom |-> FALSE, Column |-> FALSE, Row |-> FALSE],
     IsHeader |-> FALSE, Align |-> "", CellIsLast |-> FALSE,
     OptsNil |-> TRUE, OptsWidth |-> <<>>, OptsSep |-> "absent",
     RowIsLast |-> FALSE]

\* Node.isContainer of the parser: the node types Walk visits twice.
isContainer(type) ==
    type \in {"Document", "BlockQuote", "List", "Item", "Paragraph", "Heading",
              "Emph", "Strong", "Del", "Link", "Image",
              "Table", "TableHead", "TableBody", "TableRow", "TableCell"}

\* nodeWalker.next of the parser's Walk, for the walk rooted at root that
\* stands at node c in direction e: the next node and direction, node NIL
\* when the walk is over.
walkerNext(t, root, c, e) ==
    IF (~isContainer(t[c].Type) \/ ~e) /\ c = root
    THEN [current |-> NIL, entering |-> e]
    ELSE IF e /\ isContainer(t[c].Type)
         THEN IF t[c].FirstChild # NIL
              THEN [current |-> t[c].FirstChild, entering |-> TRUE]
              ELSE [current |-> c, entering |-> FALSE]
         ELSE IF t[c].Next = NIL
              THEN [current |-> t[c].Parent, entering |-> FALSE]
              ELSE [current |-> t[c].Next, entering |-> TRUE]

\* One turn of Walk's loop after the visitor returned status.
walkAfter(t, root, c, e, status) ==
    CASE status = "Terminate"    -> [current |-> NIL, entering |-> e]
      [] status = "SkipChildren" -> walkerNext(t, root, c, FALSE)
      [] OTHER                   -> walkerNext(t, root, c, e)

----------------------------------------------------------------------------
(* The render state threaded through RenderNode: the bytes written to the  *)
(* writer w of the call, the Renderer (Flags, EnvQuotation, quoted,        *)
(* quoteOpen), the tree, the WalkStatus returned and whether the call      *)
(* panicked, with the message of a panic the code raises itself.           *)

Put(s, bytes) == [s EXCEPT !.w = @ \o bytes]

Panic(s) == [s EXCEPT !.panic = TRUE]

\* A call that goes on where the code panics.
PanicIgnored(s, msg) == s

\* panic(msg)
PanicWith(s, msg) == [s EXCEPT !.panic = TRUE, !.msg = msg]

Return(s, status) == [s EXCEPT !.status = status]

\* needSkipLink's test of the destination under the Safelink flag: the
\* destination names one of the trusted protocols.
isSafeLink(dest) ==
    \/ HasPrefix(dest, <<"h", "t", "t", "p", ":", "/", "/">>)
    \/ HasPrefix(dest, <<"h", "t", "t", "p", "s", ":", "/", "/">>)
    \/ HasPrefix(dest, <<"m", "a", "i", "l", "t", "o", ":">>)

\* needSkipLink(flags, dest): never link under SkipLinks; link only to
\* trusted protocols under Safelink.
needSkipLink(flags, dest) ==
    \/ "SkipLinks" \in flags
    \/ "Safelink" \in flags /\ ~isSafeLink(dest)

\* Fault: headers without its first entry, so that level 1 is a section.
headersShifted ==
    << <<"s", "e", "c", "t", "i", "o", "n">>,
       <<"s", "u", "b", "s", "e", "c", "t", "i", "o", "n">>,
       <<"s", "u", "b", "s", "u", "b", "s", "e", "c", "t", "i", "o", "n">>,
       <<"p", "a", "r", "a", "g", "r", "a", "p", "h">>,
       <<"s", "u", "b", "p", "a", "r", "a", "g", "r", "a", "p", "h">> >>

\* headers: the sectioning command of heading level n + 1.
headers ==
    << <<"c", "h", "a", "p", "t", "e", "r">>,
       <<"s", "e", "c", "t", "i", "o", "n">>,
       <<"s", "u", "b", "s", "e", "c", "t", "i", "o", "n">>,
       <<"s", "u", "b", "s", "u", "b", "s", "e", "c", "t", "i", "o", "n">>,
       <<"p", "a", "r", "a", "g", "r", "a", "p", "h">>,
       <<"s", "u", "b", "p", "a", "r", "a", "g", "r", "a", "p", "h">> >>

\* An Env that opens the environment and never closes it.
EnvUnclosed(s, environment, entering, args) ==
    IF entering
    THEN Put(s, <<"\\", "b", "e", "g", "i", "n", "{">> \o environment \o <<"}">>
                \o Flatten([i \in 1..Len(args) |-> <<"{">> \o args[i] \o <<"}">>])
                \o <<"\n">>)
    ELSE s

\* r.Env(w, environment, entering, args...)
Env(s, environment, entering, args) ==
    IF entering
    THEN Put(s, <<"\\", "b", "e", "g", "i", "n", "{">> \o environment \o <<"}">>
                \o Flatten([i \in 1..Len(args) |-> <<"{">> \o args[i] \o <<"}">>])
                \o <<"\n">>)
    ELSE Put(s, <<"\\", "e", "n", "d", "{">> \o environment \o <<"}", "\n", "\n">>)

\* r.Cmd(w, command, entering)
Cmd(s, command, entering) ==
    IF entering
    THEN Put(s, <<"\\">> \o command \o <<"{">>)
    ELSE Put(s, <<"}">>)

\* The bytes 0x21 ('!') to 0x7F in order: ASCII[k - 32] is the byte k.
ASCII ==
    <<"!", "\"", "#", "$", "%", "&", "'", "(", ")", "*", "+", ",", "-", ".", "/", "0", "1", "2", "3", "4", "5", "6", "7", "8", "9", ":", ";", "<", "=", ">", "?", "@", "A", "B", "C", "D", "E", "F", "G", "H", "I", "J", "K", "L", "M", "N", "O", "P", "Q", "R", "S", "T", "U", "V", "W", "X", "Y", "Z", "[", "\\", "]", "^", "_", "BACKTICK", "a", "b", "c", "d", "e", "f", "g", "h", "i", "j", "k", "l", "m", "n", "o", "p", "q", "r", "s", "t", "u", "v", "w", "x", "y", "z", "{", "|", "}", "~">>
    \o <<"DEL">>

Byte(k) == ASCII[k - 32]

\* The first byte k of lo..(hi - 1) that is not in text, or 0.
RECURSIVE firstFree(_, _, _)
firstFree(text, k, hi) ==
    IF k >= hi THEN 0
    ELSE IF Byte(k) \notin Chars(text) THEN k
    ELSE firstFree(text, k + 1, hi)

\* Fault: the first loop of getDelimiter also tries '*' (42).
getDelimiterWithStar(text) ==
    IF firstFree(text, 33, 43) # 0
    THEN firstFree(text, 33, 43)
    ELSE firstFree(text, 43, 128)

\* getDelimiter(text): the first ASCII byte that is not in text, first of
\* '!' (33) up to '*' (42) excluded, then of '+' (43) up to 128 excluded;
\* 0 when there is none.
getDelimiter(text) ==
    IF firstFree(text, 33, 42) # 0
    THEN firstFree(text, 33, 42)
    ELSE firstFree(text, 43, 128)

\* languageAttr(info): info up to its first tab or space.
RECURSIVE languageAttr(_)
languageAttr(info) ==
    IF info = <<>> \/ Head(info) \in {"\t", " "}
    THEN <<>>
    ELSE <<Head(info)>> \o languageAttr(Tail(info))

\* case bf.Code
renderCode(s, n) ==
    LET node == s.tree[n] IN
    IF HasPrefix(node.Literal, <<"$", "$", " ">>)
    THEN Put(s, <<"$">> \o SubSeq(node.Literal, 4, Len(node.Literal)) \o <<"$">>)
    ELSE LET delimiter == getDelimiter(node.Literal) IN
         IF delimiter # 0
         THEN Put(s, <<"\\", "l", "s", "t", "i", "n", "l", "i", "n", "e">> \o <<Byte(delimiter)>> \o node.Literal
                     \o <<Byte(delimiter)>>)
         ELSE Put(s, <<"\\", "l", "s", "t", "i", "n", "l", "i", "n", "e">>
                     \o <<"!", "<", "R", "E", "N", "D", "E", "R", "I", "N", "G", " ", "E", "R", "R", "O", "R", ":", " ", "n", "o", " ", "d", "e", "l", "i", "m", "i", "t", "e", "r", " ", "f", "o", "u", "n", "d", ">", "!">>)

\* case bf.CodeBlock
renderCodeBlock(s, n) ==
    LET node == s.tree[n]
        lang == languageAttr(node.Info)
    IN  IF lang = <<"m", "a", "t", "h">>
        THEN Put(s, <<"\\", "[", "\n">> \o node.Literal \o <<"\\", "]", "\n", "\n">>)
        ELSE Put(s, <<"\\", "b", "e", "g", "i", "n", "{", "l", "s", "t", "l", "i", "s", "t", "i", "n", "g", "}", "[", "l", "a", "n", "g", "u", "a", "g", "e", "=">> \o lang \o <<"]", "\n">>
                    \o node.Literal \o <<"\\", "e", "n", "d", "{", "l", "s", "t", "l", "i", "s", "t", "i", "n", "g", "}", "\n", "\n">>)

\* case bf.Heading
renderHeading(s, n, entering) ==
    LET node == s.tree[n]
        lvl  == node.Level - 1
    IN
    IF node.IsTitleblock THEN s
    ELSE IF entering
    THEN IF lvl < Len(headers)
         THEN IF lvl < 0
              THEN Panic(s)    \* headers[n]: index out of range
              ELSE
              LET first == node.FirstChild
                  lit   == s.tree[first].Literal
                  cfg   == node.Config
                  star  ==
                    IF Len(cfg) > 0 /\ cfg \in {<<"*">>, <<"*", "*">>}
                       /\ first # NIL /\ s.tree[first].Type = "Text"
                    THEN <<"*", "[">> \o lit
                         \o (IF cfg = <<"*">>
                             THEN <<"]", "{">> \o lit
                                  \o <<"}", "\n", "\\", "a", "d", "d", "c", "o", "n", "t", "e", "n", "t", "s", "l", "i", "n", "e", "{", "t", "o", "c", "}", "{">>
                                  \o headers[lvl + 1] \o <<"}">>
                             ELSE <<"]">>)
                    ELSE <<>>
              IN Put(s, <<"\\">> \o headers[lvl + 1] \o star \o <<"{">>)
         ELSE Put(s, <<"\\", "t", "e", "x", "t", "b", "f", "{">>)
    ELSE Put(s, <<"}">> \o (IF node.Level \in {1, 2, 3} THEN <<"\n">> ELSE <<" ">>))

\* hasPrefixCaseInsensitive(s, prefix) for the two prefixes the renderer
\* passes: a byte of s matches the prefix byte b when it is b or b - 32.
plus32(c) ==
    CASE c = "H" -> "h" [] c = "T" -> "t" [] c = "P" -> "p" [] c = "S" -> "s"
      [] c = "SUB" -> ":" [] c = "SI" -> "/"
      [] OTHER -> c

hasPrefixCaseInsensitive(str, prefix) ==
    /\ Len(str) >= Len(prefix)
    /\ \A i \in 1..Len(prefix) : prefix[i] = str[i] \/ prefix[i] = plus32(str[i])

\* filepath.Ext(path): the suffix from the last dot of the last element.
RECURSIVE extFrom(_, _)
extFrom(path, i) ==
    IF i < 1 \/ path[i] = "/" THEN <<>>
    ELSE IF path[i] = "." THEN SubSeq(path, i, Len(path))
    ELSE extFrom(path, i - 1)

Ext(path) == extFrom(path, Len(path))

\* case bf.Image
renderImage(s, n, entering) ==
    LET node == s.tree[n]
        dest == node.Destination
    IN
    IF entering
    THEN IF \/ hasPrefixCaseInsensitive(dest, <<"h", "t", "t", "p", ":", "/", "/">>)
            \/ hasPrefixCaseInsensitive(dest, <<"h", "t", "t", "p", "s", ":", "/", "/">>)
         THEN Return(Put(s, <<"\\", "u", "r", "l", "{">> \o dest \o <<"}">>), "SkipChildren")
         ELSE LET trimmed == SubSeq(dest, 1, Len(dest) - Len(Ext(dest))) IN
              Return(
                Put(s,
                    (IF ~node.TitleNil THEN <<"\\", "b", "e", "g", "i", "n", "{", "f", "i", "g", "u", "r", "e", "}", "[", "!", "h", "t", "]", "\n">> ELSE <<>>)
                    \o <<"\\", "b", "e", "g", "i", "n", "{", "c", "e", "n", "t", "e", "r", "}", "\n">>
                    \o <<"\\", "i", "n", "c", "l", "u", "d", "e", "g", "r", "a", "p", "h", "i", "c", "s", "[", "m", "a", "x", " ", "w", "i", "d", "t", "h", "=", "\\", "t", "e", "x", "t", "w", "i", "d", "t", "h", ",", " ", "m", "a", "x", " ", "h", "e", "i", "g", "h", "t", "=", "\\", "t", "e", "x", "t", "h", "e", "i", "g", "h", "t", "]", "{">>
                    \o trimmed
                    \o <<"}", "\n", "\\", "e", "n", "d", "{", "c", "e", "n", "t", "e", "r", "}", "\n">>
                    \o (IF ~node.TitleNil
                        THEN <<"\\", "c", "a", "p", "t", "i", "o", "n", "{">> \o node.Title \o <<"}", "\n", "\\", "e", "n", "d", "{", "f", "i", "g", "u", "r", "e", "}", "\n">>
                        ELSE <<>>)),
                "SkipChildren")
    ELSE Return(s, "SkipChildren")

\* case bf.Item
renderItem(s, n, entering) ==
    LET node == s.tree[n] IN
    IF entering
    THEN IF "Term" \in node.ListFlags
         THEN Put(s, <<"\\", "i", "t", "e", "m", " ", "[">>)
         ELSE IF "Definition" \notin node.ListFlags
              THEN Put(s, <<"\\", "i", "t", "e", "m", " ">>)
              ELSE s
    ELSE IF "Term" \in node.ListFlags
         THEN Put(s, <<"]", " ">>)
         ELSE s

\* A list rendering in which the ordered flag wins over the definition
\* flag.
renderListOrderedFirst(s, n, entering) ==
    LET node == s.tree[n] IN
    IF node.IsFootnotesList
    THEN Return(s, "SkipChildren")
    ELSE Env(s,
             IF "Ordered" \in node.ListFlags THEN <<"e", "n", "u", "m", "e", "r", "a", "t", "e">>
             ELSE IF "Definition" \in node.ListFlags THEN <<"d", "e", "s", "c", "r", "i", "p", "t", "i", "o", "n">>
             ELSE <<"i", "t", "e", "m", "i", "z", "e">>,
             entering, <<>>)

\* case bf.List
renderList(s, n, entering) ==
    LET node == s.tree[n] IN
    IF node.IsFootnotesList
    THEN Return(s, "SkipChildren")
    ELSE Env(s,
             IF "Definition" \in node.ListFlags THEN <<"d", "e", "s", "c", "r", "i", "p", "t", "i", "o", "n">>
             ELSE IF "Ordered" \in node.ListFlags THEN <<"e", "n", "u", "m", "e", "r", "a", "t", "e">>
             ELSE <<"i", "t", "e", "m", "i", "z", "e">>,
             entering, <<>>)

\* A paragraph rendering that breaks the line after a term too.
renderParagraphBreaking(s, n, entering) ==
    LET node == s.tree[n] IN
    IF entering THEN s
    ELSE IF node.Parent = NIL
         THEN Panic(s)
         ELSE Put(s, <<"\n">> \o (IF node.Next # NIL THEN <<"\n">> ELSE <<>>))

\* case bf.Paragraph
renderParagraph(s, n, entering) ==
    LET node == s.tree[n] IN
    IF entering THEN s
    ELSE IF node.Parent = NIL
         THEN Panic(s)    \* node.Parent.Type: nil pointer dereference
         ELSE IF \/ s.tree[node.Parent].Type # "Item"
                 \/ "Term" \notin s.tree[node.Parent].ListFlags
              THEN Put(s, <<"\n">> \o (IF node.Next # NIL THEN <<"\n">> ELSE <<>>))
              ELSE s

\* case bf.Text
renderText(s, n) ==
    LET node == s.tree[n] IN
    IF Len(node.Literal) > 0 THEN Escape(s, node.Literal) ELSE s

\* strings.LastIndexByte(str, c): the index, from 0, of the last c in str,
\* -1 without one.
LastIndexByte(str, c) ==
    LET I == {i \in 1..Len(str) : str[i] = c}
    IN  IF I = {} THEN -1 ELSE (CHOOSE i \in I : \A j \in I : j <= i) - 1

\* strings.TrimSpace(str)
TrimSpace(str) ==
    LET space == {" ", "\t", "\n", "\r"}
        I     == {i \in 1..Len(str) : str[i] \notin space}
    IN  IF I = {} THEN <<>>
        ELSE SubSeq(str, CHOOSE i \in I : \A j \in I : i <= j,
                         CHOOSE i \in I : \A j \in I : j <= i)

\* A block quote rendering that detaches the last paragraph without
\* clearing the next-sibling link of the paragraph before it.
renderBlockQuoteDangling(s, n, entering) ==
    LET t    == s.tree
        node == t[n]
        env(s1, args) == Env(s1, s1.EnvQuotation, entering, args)
    IN
    IF ~entering THEN env(s, <<>>)
    ELSE IF node.LastChild = NIL
    THEN Panic(s)
    ELSE IF t[node.LastChild].Type # "Paragraph" THEN env(s, <<>>)
    ELSE IF t[node.LastChild].LastChild = NIL
    THEN Panic(s)
    ELSE IF t[t[node.LastChild].LastChild].Type # "Text" THEN env(s, <<>>)
    ELSE
    LET par  == node.LastChild
        x    == t[par].LastChild
        text == t[x]
        str  == text.Literal
        pos  == LastIndexByte(str, "\n")
    IN
    IF Len(str) = 0 THEN env(s, <<>>)
    ELSE IF pos > 0
    THEN LET lastLine == SubSeq(str, pos + 2, Len(str)) IN
         IF HasPrefix(lastLine, <<"-", "-", " ">>)
         THEN env([s EXCEPT !.tree[x].Literal = SubSeq(str, 1, pos)],
                  <<TrimSpace(SubSeq(lastLine, 4, Len(lastLine)))>>)
         ELSE env(s, <<>>)
    ELSE IF pos = -1 /\ HasPrefix(str, <<"-", "-", " ">>)
    THEN LET args == <<TrimSpace(SubSeq(str, 4, Len(str)))>> IN
         IF text.Prev # NIL
         THEN IF text.Parent = NIL
              THEN Panic(s)
              ELSE env([s EXCEPT !.tree[text.Prev].Next = NIL,
                                 !.tree[text.Parent].LastChild = text.Prev], args)
         ELSE IF t[par].Prev # NIL
              THEN env([s EXCEPT !.tree[n].LastChild = t[par].Prev], args)
              ELSE env(s, args)
    ELSE env(s, <<>>)

\* case bf.BlockQuote: on entering, a last line "-- Author" of the last
\* Text of the last Paragraph becomes the argument of the environment and
\* is cut from the tree.
renderBlockQuote(s, n, entering) ==
    LET t    == s.tree
        node == t[n]
        env(s1, args) == Env(s1, s1.EnvQuotation, entering, args)
    IN
    IF ~entering THEN env(s, <<>>)
    ELSE IF node.LastChild = NIL
    THEN Panic(s)    \* node.LastChild.Type: nil pointer dereference
    ELSE IF t[node.LastChild].Type # "Paragraph" THEN env(s, <<>>)
    ELSE IF t[node.LastChild].LastChild = NIL
    THEN Panic(s)    \* node.LastChild.LastChild.Type: nil pointer dereference
    ELSE IF t[t[node.LastChild].LastChild].Type # "Text" THEN env(s, <<>>)
    ELSE
    LET par  == node.LastChild
        x    == t[par].LastChild
        text == t[x]
        str  == text.Literal
        pos  == LastIndexByte(str, "\n")
    IN
    IF Len(str) = 0 THEN env(s, <<>>)
    ELSE IF pos > 0
    THEN LET lastLine == SubSeq(str, pos + 2, Len(str)) IN
         IF HasPrefix(lastLine, <<"-", "-", " ">>)
         THEN env([s EXCEPT !.tree[x].Literal = SubSeq(str, 1, pos)],
                  <<TrimSpace(SubSeq(lastLine, 4, Len(lastLine)))>>)
         ELSE env(s, <<>>)
    ELSE IF pos = -1 /\ HasPrefix(str, <<"-", "-", " ">>)
    THEN LET args == <<TrimSpace(SubSeq(str, 4, Len(str)))>> IN
         IF text.Prev # NIL
         THEN IF text.Parent = NIL
              THEN Panic(s)    \* text.Parent.LastChild: nil pointer dereference
              ELSE env([s EXCEPT !.tree[text.Prev].Next = NIL,
                                 !.tree[text.Parent].LastChild = text.Prev], args)
         ELSE IF t[par].Prev # NIL
              THEN env([s EXCEPT !.tree[n].LastChild = t[par].Prev,
                                 !.tree[t[par].Prev].Next = NIL], args)
              ELSE env(s, args)
    ELSE env(s, <<>>)

\* An alignment table with the entries of right and center exchanged.
cellAlignmentSwapped(align) ==
    CASE align = "Left"   -> "l"
      [] align = "Right"  -> "c"
      [] align = "Center" -> "r"
      [] OTHER            -> "l"

\* cellAlignment[cell.Align]
cellAlignment(align) ==
    CASE align = "Left"   -> "l"
      [] align = "Right"  -> "r"
      [] align = "Center" -> "c"
      [] OTHER            -> "l"

\* The loop over the cells of a row in the column walk of a Table, from
\* the cell c on: the column specifiers written, and sep as the last cell
\* leaves it.
RECURSIVE tableColumns(_, _, _)
tableColumns(s, border, c) ==
    LET cell   == s.tree[c]
        sep    == IF cell.OptsNil
                  THEN border.Column /\ ~cell.CellIsLast
                  ELSE IF border.Column THEN ~cell.CellIsLast
                       ELSE cell.OptsSep = "true"
        writed == ~cell.OptsNil /\ cell.OptsWidth # <<>>
        s1     == IF writed
                  THEN Put(s, <<"p", "{">> \o cell.OptsWidth \o <<"\\", "t", "e", "x", "t", "w", "i", "d", "t", "h", "}">>
                              \o (CASE cell.Align = "Right"  -> <<"<", "{", "\\", "r", "a", "g", "g", "e", "d", "l", "e", "f", "t", "\\", "a", "r", "r", "a", "y", "b", "a", "c", "k", "s", "l", "a", "s", "h", "}">>
                                    [] cell.Align = "Center" -> <<"<", "{", "\\", "c", "e", "n", "t", "e", "r", "i", "n", "g", "\\", "a", "r", "r", "a", "y", "b", "a", "c", "k", "s", "l", "a", "s", "h", "}">>
                                    [] OTHER                 -> <<>>))
                  ELSE Put(s, <<cellAlignment(cell.Align)>>)
        s2     == IF sep THEN Put(s1, <<"|">>) ELSE s1
    IN  IF cell.Next = NIL
        THEN [s |-> s2, sep |-> sep]
        ELSE tableColumns(s2, border, cell.Next)

\* node.Walk(...) of a Table on entering: at the first TableCell entered,
\* the column specification of its row is written and the walk terminated.
RECURSIVE walkTable(_, _, _, _, _)
walkTable(s, border, root, c, e) ==
    IF c = NIL THEN s
    ELSE IF s.tree[c].Type = "TableCell" /\ e
         THEN LET s1 == IF border.Left THEN Put(s, <<"|">>) ELSE s
                  r  == tableColumns(s1, border, c)
              IN  IF ~r.sep /\ border.Rigth THEN Put(r.s, <<"|">>) ELSE r.s
         ELSE LET nx == walkAfter(s.tree, root, c, e, "GoToNext") IN
              walkTable(s, border, root, nx.current, nx.entering)

\* case bf.Table
renderTable(s, n, entering) ==
    LET border == s.tree[n].Border IN
    IF entering
    THEN LET s1 == Put(s, <<"\\", "b", "e", "g", "i", "n", "{", "c", "e", "n", "t", "e", "r", "}", "\n", "\\", "b", "e", "g", "i", "n", "{", "t", "a", "b", "u", "l", "a", "r", "}", "{">>)
             s2 == Put(walkTable(s1, border, n, n, TRUE), <<"}", "\n">>)
         IN  IF border.Top THEN Put(s2, <<"\\", "h", "l", "i", "n", "e", "\n">>) ELSE s2
    ELSE LET s1 == IF border.Bottom THEN Put(s, <<"\\", "h", "l", "i", "n", "e", "\n">>) ELSE s
         IN  Put(s1, <<"\\", "e", "n", "d", "{", "t", "a", "b", "u", "l", "a", "r", "}", "\n", "\\", "e", "n", "d", "{", "c", "e", "n", "t", "e", "r", "}", "\n", "\n">>)

\* case bf.TableCell
renderTableCell(s, n, entering) ==
    LET node == s.tree[n]
        s1   == IF node.IsHeader THEN Cmd(s, <<"t", "e", "x", "t", "b", "f">>, entering) ELSE s
    IN  IF ~entering /\ node.Next # NIL THEN Put(s1, <<" ", "&", " ">>) ELSE s1

\* case bf.TableHead
renderTableHead(s, n, entering) ==
    IF ~entering THEN Put(s, <<"\\", "h", "l", "i", "n", "e", "\n">>) ELSE s

\* A row rendering that writes the rule after every row of a table with
\* the row-border flag.
renderTableRowRuled(s, n, entering) ==
    LET t    == s.tree
        node == t[n]
    IN
    IF entering THEN s
    ELSE IF node.Parent = NIL \/ t[node.Parent].Parent = NIL
    THEN Panic(s)
    ELSE IF t[t[node.Parent].Parent].Border.Row
         THEN Put(s, <<" ", "\\", "\\", " ", "\\", "h", "l", "i", "n", "e", "\n">>)
         ELSE Put(s, <<" ", "\\", "\\", "\n">>)

\* case bf.TableRow
renderTableRow(s, n, entering) ==
    LET t    == s.tree
        node == t[n]
    IN
    IF entering THEN s
    ELSE IF node.Parent = NIL \/ t[node.Parent].Parent = NIL
    THEN Panic(s)    \* node.Parent.Parent.TableData: nil pointer dereference
    ELSE IF /\ t[t[node.Parent].Parent].Border.Row
            /\ t[node.Parent].Type = "TableBody"
            /\ ~node.RowIsLast
         THEN Put(s, <<" ", "\\", "\\", " ", "\\", "h", "l", "i", "n", "e", "\n">>)
         ELSE Put(s, <<" ", "\\", "\\", "\n">>)

\* strings.Index(str, "\n"): the index of the first newline, from 0, or
\* -1.
IndexNewline(str) ==
    LET at == {i \in 1..Len(str) : str[i] = "\n"} IN
    IF at = {} THEN -1 ELSE (CHOOSE i \in at : \A j \in at : i <= j) - 1

\* strings.TrimSuffix(str, suffix)
TrimSuffix(str, suffix) ==
    IF /\ Len(str) >= Len(suffix)
       /\ SubSeq(str, Len(str) - Len(suffix) + 1, Len(str)) = suffix
    THEN SubSeq(str, 1, Len(str) - Len(suffix))
    ELSE str

\* cfg.Opts.HtmlBlockHandler of Exec
execHtmlBlockHandler(s, n, entering) ==
    LET str == s.tree[n].Literal
        pos == IndexNewline(str)
    IN
    IF s.tree[n].Type = "HTMLBlock" /\ HasPrefix(str, <<"<", "!", "-", "-", " ", ":", ":">>) /\ pos > 0
    THEN LET key     == SubSeq(str, 8, pos)
             content == TrimSpace(TrimSuffix(SubSeq(str, pos + 2, Len(str)), <<"-", "-", ">">>))
         IN  IF key = <<>>
             THEN Put(s, content \o <<"\n", "\n">>)
             ELSE IF key \in DOMAIN s.HtmlBlockHandler.LatexRawFiles
             THEN [s EXCEPT !.HtmlBlockHandler.LatexRawFiles[key] =
                                Append(@, content)]
             ELSE s
    ELSE s

\* case bf.HTMLBlock, case bf.HTMLSpan
renderHTML(s, n, entering) ==
    IF s.HtmlBlockHandler.installed
    THEN execHtmlBlockHandler(s, n, entering)
    ELSE s

RECURSIVE RenderNode(_, _, _)

\* footnoteNode.Walk(...) of the footnote branch of a Link: renders every
\* node under root but root itself, from the walk position (c, e) on.
RECURSIVE walkFootnote(_, _, _, _)
walkFootnote(s, root, c, e) ==
    IF c = NIL THEN s
    ELSE LET s1 == IF c = root
                   THEN Return(s, "GoToNext")
                   ELSE RenderNode(s, c, e)
         IN  IF s1.panic THEN s1
             ELSE LET nx == walkAfter(s1.tree, root, c, e, s1.status) IN
                  walkFootnote(s1, root, nx.current, nx.entering)

\* Fault: the raw URI branch writes its footnote on entering the link,
\* ahead of the link text.
renderLinkRawEarly(s, n, entering) ==
    LET node == s.tree[n]
        dest == node.Destination
    IN
    IF node.FirstChild = NIL /\ node.LastChild = NIL
    THEN Panic(s)
    ELSE IF \/ node.FirstChild # node.LastChild
            \/ s.tree[node.FirstChild].Type # "Text"
            \/ dest # s.tree[node.FirstChild].Literal
         THEN IF entering
              THEN Put(s, <<"\\", "f", "o", "o", "t", "n", "o", "t", "e", "{", "\\", "n", "o", "l", "i", "n", "k", "u", "r", "l", "{">> \o dest \o <<"}", "}">>)
              ELSE s
         ELSE Return(Put(s, <<"\\", "n", "o", "l", "i", "n", "k", "u", "r", "l", "{">> \o dest \o <<"}">>), "SkipChildren")

\* case bf.Link, the raw URI branch (needSkipLink)
renderLinkRaw(s, n, entering) ==
    LET node == s.tree[n]
        dest == node.Destination
    IN
    IF node.FirstChild = NIL /\ node.LastChild = NIL
    THEN Panic(s)    \* node.FirstChild.Type: nil pointer dereference
    ELSE IF \/ node.FirstChild # node.LastChild
            \/ s.tree[node.FirstChild].Type # "Text"
            \/ dest # s.tree[node.FirstChild].Literal
         THEN IF ~entering
              THEN Put(s, <<"\\", "f", "o", "o", "t", "n", "o", "t", "e", "{", "\\", "n", "o", "l", "i", "n", "k", "u", "r", "l", "{">> \o dest \o <<"}", "}">>)
              ELSE s
         ELSE Return(Put(s, <<"\\", "n", "o", "l", "i", "n", "k", "u", "r", "l", "{">> \o dest \o <<"}">>), "SkipChildren")

\* case bf.Link, the footnote branch (node.NoteID != 0).  The scratch
\* buffer declared after the first write shadows the writer w: the walk of
\* the footnote, the copy of the buffer and the closing brace all go to the
\* scratch buffer, which is dropped.
renderLinkFootnote(s, n, entering) ==
    LET node == s.tree[n] IN
    IF entering
    THEN LET s1      == Put(s, <<"\\", "f", "o", "o", "t", "n", "o", "t", "e", "{">>)
             sub     == walkFootnote([s1 EXCEPT !.w = <<>>], node.Footnote,
                                     node.Footnote, TRUE)
             scratch == sub.w \o sub.w \o <<"}">>
         IN  Return([sub EXCEPT !.w = s1.w], "GoToNext")
    ELSE s

\* case bf.Link, the normal link
renderLinkNormal(s, n, entering) ==
    LET node == s.tree[n] IN
    IF entering
    THEN Put(s, <<"\\", "h", "r", "e", "f", "{">> \o node.Destination \o <<"}", "{">>)
    ELSE Put(s, <<"}">>)

\* Fault: the footnote branch is tried before the raw URI branch.
renderLinkFootnoteFirst(s, n, entering) ==
    LET node == s.tree[n] IN
    IF node.NoteID # 0
    THEN renderLinkFootnote(s, n, entering)
    ELSE IF needSkipLink(s.Flags, node.Destination)
         THEN renderLinkRaw(s, n, entering)
         ELSE renderLinkNormal(s, n, entering)

\* case bf.Link
renderLink(s, n, entering) ==
    LET node == s.tree[n] IN
    IF needSkipLink(s.Flags, node.Destination)
    THEN renderLinkRaw(s, n, entering)
    ELSE IF node.NoteID # 0
         THEN renderLinkFootnote(s, n, entering)
         ELSE renderLinkNormal(s, n, entering)

\* r.RenderNode(w, node, entering): s with the bytes written to w appended,
\* the quote state and the tree as the call leaves them, and the WalkStatus
\* returned.
RenderNode(s0, n, entering) ==
    LET s    == Return(s0, "GoToNext")
        type == s.tree[n].Type
    IN
    CASE type = "BlockQuote"     -> renderBlockQuote(s, n, entering)
      [] type = "Code"           -> renderCode(s, n)
      [] type = "CodeBlock"      -> renderCodeBlock(s, n)
      [] type = "Del"            -> Cmd(s, <<"s", "o", "u", "t">>, entering)
      [] type = "Document"       -> s
      [] type = "Emph"           -> Cmd(s, <<"e", "m", "p", "h">>, entering)
      [] type = "Hardbreak"      -> Put(s, <<"~", "\\", "\\", "\n">>)
      [] type = "Heading"        -> renderHeading(s, n, entering)
      [] type = "HTMLBlock"      -> renderHTML(s, n, entering)
      [] type = "HTMLSpan"       -> renderHTML(s, n, entering)
      [] type = "HorizontalRule" -> Put(s, <<"\\", "H", "R", "u", "l", "e", "{", "}", "\n">>)
      [] type = "Image"          -> renderImage(s, n, entering)
      [] type = "Item"           -> renderItem(s, n, entering)
      [] type = "Link"           -> renderLink(s, n, entering)
      [] type = "List"           -> renderList(s, n, entering)
      [] type = "Paragraph"      -> renderParagraph(s, n, entering)
      [] type = "Softbreak"      -> s
      [] type = "Strong"         -> Cmd(s, <<"t", "e", "x", "t", "b", "f">>, entering)
      [] type = "Table"          -> renderTable(s, n, entering)
      [] type = "TableBody"      -> s
      [] type = "TableCell"      -> renderTableCell(s, n, entering)
      [] type = "TableHead"      -> renderTableHead(s, n, entering)
      [] type = "TableRow"       -> renderTableRow(s, n, entering)
      [] type = "Text"           -> renderText(s, n)
      [] OTHER                   -> PanicWith(s, <<"U", "n", "k", "n", "o", "w", "n", " ", "n", "o", "d", "e", " ", "t", "y", "p", "e", " ">> \o <<type>>)

----------------------------------------------------------------------------
(* Render: the walk of the tree.                                           *)

\* The root of the tree handed to Render.
Root == 1

\* A nil HtmlBlockHandler.
noHandler == [installed |-> FALSE, LatexRawFiles |-> [id \in {} |-> <<>>]]

\* The render state at the start of a visitor call.
callState ==
    [w |-> <<>>, Flags |-> Flags, EnvQuotation |-> EnvQuotation,
     HtmlBlockHandler |-> HtmlBlockHandler,
     quoted |-> quoted, quoteOpen |-> quoteOpen, tree |-> tree,
     status |-> "GoToNext", panic |-> FALSE, msg |-> <<>>]

\* A visitor that passes every node to RenderNode.
visitorNoSkip(s, n, e) == RenderNode(s, n, e)

\* The visitor Render passes to ast.Walk.
visitor(s, n, e) ==
    IF s.tree[n].Type = "Heading" /\ s.tree[n].IsTitleblock
    THEN Return(s, "SkipChildren")
    ELSE RenderNode(s, n, e)

\* Every node of the walk rooted at root rendered by the Renderer of s,
\* from the walk position (c, e) on.
RECURSIVE walkAll(_, _, _, _)
walkAll(s, root, c, e) ==
    IF c = NIL THEN s
    ELSE LET s1 == RenderNode(s, c, e) IN
         IF s1.panic THEN s1
         ELSE LET nx == walkAfter(s1.tree, root, c, e, s1.status) IN
              walkAll(s1, root, nx.current, nx.entering)

\* The walk of getTitle from the position (c, e) on: the subtree of the
\* first title block entered is rendered and the walk terminated.
RECURSIVE walkTitle(_, _, _)
walkTitle(s, c, e) ==
    IF c = NIL THEN s
    ELSE IF s.tree[c].Type = "Heading" /\ s.tree[c].IsTitleblock /\ e
         THEN walkAll(s, c, c, TRUE)
         ELSE LET nx == walkAfter(s.tree, Root, c, e, "GoToNext") IN
              walkTitle(s, nx.current, nx.entering)

\* getTitle(ast): the title block rendered by a Renderer{} of its own into
\* a buffer of its own; w is the title, tree the tree as the rendering
\* leaves it.
getTitle(t) ==
    walkTitle([w |-> <<>>, Flags |-> {}, EnvQuotation |-> <<>>,
               HtmlBlockHandler |-> noHandler,
               quoted |-> FALSE, quoteOpen |-> FALSE, tree |-> t,
               status |-> "GoToNext", panic |-> FALSE, msg |-> <<>>], Root, TRUE)

\* hasFigures(ast), from the walk position (c, e) on: the walk meets an
\* Image with a title.
RECURSIVE hasFiguresFrom(_, _, _)
hasFiguresFrom(t, c, e) ==
    IF c = NIL THEN FALSE
    ELSE IF t[c].Type = "Image" /\ ~t[c].TitleNil THEN TRUE
         ELSE LET nx == walkAfter(t, Root, c, e, "GoToNext") IN
              hasFiguresFrom(t, nx.current, nx.entering)

hasFigures(t) == hasFiguresFrom(t, Root, TRUE)

\* bf.Version of the parser.
Version == <<"2", ".", "0">>

\* The preamble of RenderHeader up to the babel package.
preambleStart ==
    <<"\\", "d", "o", "c", "u", "m", "e", "n", "t", "c", "l", "a", "s",
          "s", "{", "a", "r", "t", "i", "c", "l", "e", "}", "\n", "\n", "\\",
          "u", "s", "e", "p", "a", "c", "k", "a", "g", "e", "[", "u", "t",
          "f", "8", "]", "{", "i", "n", "p", "u", "t", "e", "n", "c", "}",
          "\n", "\\", "u", "s", "e", "p", "a", "c", "k", "a", "g", "e", "[",
          "T", "1", "]", "{", "f", "o", "n", "t", "e", "n", "c", "}", "\n",
          "\\", "u", "s", "e", "p", "a", "c", "k", "a", "g", "e", "{", "l",
          "m", "o", "d", "e", "r", "n", "}", "\n", "\\", "u", "s", "e", "p",
          "a", "c", "k", "a", "g", "e", "{", "m", "a", "r", "v", "o", "s",
          "y", "m", "}", "\n", "\\", "u", "s", "e", "p", "a", "c", "k", "a",
          "g", "e", "{", "t", "e", "x", "t", "c", "o", "m", "p", "}", "\n",
          "\\", "D", "e", "c", "l", "a", "r", "e", "U", "n", "i", "c", "o",
          "d", "e", "C", "h", "a", "r", "a", "c", "t", "e", "r", "{", "2",
          "0", "A", "C", "}", "{", "\\", "E", "U", "R", "{", "}", "}", "\n",
          "\\", "D", "e", "c", "l", "a", "r", "e", "U", "n", "i", "c", "o",
          "d", "e", "C", "h", "a", "r", "a", "c", "t", "e", "r", "{", "2",
          "2", "6", "0", "}", "{", "\\", "n", "e", "q", "}", "\n", "\\", "D",
          "e", "c", "l", "a", "r", "e", "U", "n", "i", "c", "o", "d", "e",
          "C", "h", "a", "r", "a", "c", "t", "e", "r", "{", "2", "2", "6",
          "4", "}", "{", "\\", "l", "e", "q", "}", "\n", "\\", "D", "e", "c",
          "l", "a", "r", "e", "U", "n", "i", "c", "o", "d", "e", "C", "h",
          "a", "r", "a", "c", "t", "e", "r", "{", "2", "2", "6", "5", "}",
          "{", "\\", "g", "e", "q", "}", "\n", "\\", "D", "e", "c", "l", "a",
          "r", "e", "U", "n", "i", "c", "o", "d", "e", "C", "h", "a", "r",
          "a", "c", "t", "e", "r", "{", "2", "2", "C", "5", "}", "{", "\\",
          "c", "d", "o", "t", "}", "\n", "\\", "D", "e", "c", "l", "a", "r",
          "e", "U", "n", "i", "c", "o", "d", "e", "C", "h", "a", "r", "a",
          "c", "t", "e", "r", "{", "A", "0", "}", "{", "~", "}", "\n", "\\",
          "D", "e", "c", "l", "a", "r", "e", "U", "n", "i", "c", "o", "d",
          "e", "C", "h", "a", "r", "a", "c", "t", "e", "r", "{", "B", "1",
          "}", "{", "\\", "p", "m", "}", "\n", "\\", "D", "e", "c", "l", "a",
          "r", "e", "U", "n", "i", "c", "o", "d", "e", "C", "h", "a", "r",
          "a", "c", "t", "e", "r", "{", "D", "7", "}", "{", "\\", "t", "i",
          "m", "e", "s", "}", "\n", "\n", "\\", "u", "s", "e", "p", "a", "c",
          "k", "a", "g", "e", "{", "a", "m", "s", "m", "a", "t", "h", "}",
          "\n", "\\", "u", "s", "e", "p", "a", "c", "k", "a", "g", "e", "[",
          "e", "x", "p", "o", "r", "t", "]", "{", "a", "d", "j", "u", "s",
          "t", "b", "o", "x", "}", " ", "%", " ", "l", "o", "a", "d", "s",
          " ", "a", "l", "s", "o", " ", "g", "r", "a", "p", "h", "i", "c",
          "x", "\n", "\\", "u", "s", "e", "p", "a", "c", "k", "a", "g", "e",
          "{", "l", "i", "s", "t", "i", "n", "g", "s", "}", "\n", "\\", "u",
          "s", "e", "p", "a", "c", "k", "a", "g", "e", "[", "m", "a", "r",
          "g", "i", "n", "=", "1", "i", "n", "]", "{", "g", "e", "o", "m",
          "e", "t", "r", "y", "}", "\n", "\\", "u", "s", "e", "p", "a", "c",
          "k", "a", "g", "e", "{", "v", "e", "r", "b", "a", "t", "i", "m",
          "}", "\n", "\\", "u", "s", "e", "p", "a", "c", "k", "a", "g", "e",
          "[", "n", "o", "r", "m", "a", "l", "e", "m", "]", "{", "u", "l",
          "e", "m", "}", "\n", "\\", "u", "s", "e", "p", "a", "c", "k", "a",
          "g", "e", "{", "h", "y", "p", "e", "r", "r", "e", "f", "}", "\n",
          "\n", "\\", "l", "s", "t", "s", "e", "t", "{", "\n", "\t", "n",
          "u", "m", "b", "e", "r", "s", "=", "l", "e", "f", "t", ",", "\n",
          "\t", "b", "r", "e", "a", "k", "l", "i", "n", "e", "s", "=", "t",
          "r", "u", "e", ",", "\n", "\t", "x", "l", "e", "f", "t", "m", "a",
          "r", "g", "i", "n", "=", "2", "\\", "b", "a", "s", "e", "l", "i",
          "n", "e", "s", "k", "i", "p", ",", "\n", "\t", "s", "h", "o", "w",
          "s", "t", "r", "i", "n", "g", "s", "p", "a", "c", "e", "s", "=",
          "f", "a", "l", "s", "e", ",", "\n", "\t", "b", "a", "s", "i", "c",
          "s", "t", "y", "l", "e", "=", "\\", "t", "t", "f", "a", "m", "i",
          "l", "y", ",", "\n", "\t", "k", "e", "y", "w", "o", "r", "d", "s",
          "t", "y", "l", "e", "=", "\\", "b", "f", "s", "e", "r", "i", "e",
          "s", "\\", "c", "o", "l", "o", "r", "{", "g", "r", "e", "e", "n",
          "!", "4", "0", "!", "b", "l", "a", "c", "k", "}", ",", "\n", "\t",
          "c", "o", "m", "m", "e", "n", "t", "s", "t", "y", "l", "e", "=",
          "\\", "i", "t", "s", "h", "a", "p", "e", "\\", "c", "o", "l", "o",
          "r", "{", "p", "u", "r", "p", "l", "e", "!", "4", "0", "!", "b",
          "l", "a", "c", "k", "}", ",", "\n", "\t", "s", "t", "r", "i", "n",
          "g", "s", "t", "y", "l", "e", "=", "\\", "c", "o", "l", "o", "r",
          "{", "o", "r", "a", "n", "g", "e", "}", ",", "\n", "\t", "n", "u",
          "m", "b", "e", "r", "s", "t", "y", "l", "e", "=", "\\", "t", "t",
          "f", "a", "m", "i", "l", "y", ",", "\n", "\t", "l", "i", "t", "e",
          "r", "a", "t", "e", "=", "\n", "\t", "{", "U+00E1", "}", "{", "{",
          "\\", "'", "a", "}", "}", "1", " ", "{", "U+00E9", "}", "{", "{",
          "\\", "'", "e", "}", "}", "1", " ", "{", "U+00ED", "}", "{", "{",
          "\\", "'", "i", "}", "}", "1", " ", "{", "U+00F3", "}", "{", "{",
          "\\", "'", "o", "}", "}", "1", " ", "{", "U+00FA", "}", "{", "{",
          "\\", "'", "u", "}", "}", "1", "\n", "\t", "{", "U+00C1", "}", "{",
          "{", "\\", "'", "A", "}", "}", "1", " ", "{", "U+00C9", "}", "{",
          "{", "\\", "'", "E", "}", "}", "1", " ", "{", "U+00CD", "}", "{",
          "{", "\\", "'", "I", "}", "}", "1", " ", "{", "U+00D3", "}", "{",
          "{", "\\", "'", "O", "}", "}", "1", " ", "{", "U+00DA", "}", "{",
          "{", "\\", "'", "U", "}", "}", "1", "\n", "\t">>
        \o <<"{", "U+00E0", "}", "{", "{", "\\", "BACKTICK", "a", "}", "}", "1",
          " ", "{", "U+00E8", "}", "{", "{", "\\", "BACKTICK", "e", "}", "}",
          "1", " ", "{", "U+00EC", "}", "{", "{", "\\", "BACKTICK", "i", "}",
          "}", "1", " ", "{", "U+00F2", "}", "{", "{", "\\", "BACKTICK", "o",
          "}", "}", "1", " ", "{", "U+00F9", "}", "{", "{", "\\", "BACKTICK",
          "u", "}", "}", "1">>
        \o <<"\n", "\t">>
        \o <<"{", "U+00C0", "}", "{", "{", "\\", "BACKTICK", "A", "}", "}", "1",
          " ", "{", "U+00C8", "}", "{", "{", "\\", "'", "E", "}", "}", "1",
          " ", "{", "U+00CC", "}", "{", "{", "\\", "BACKTICK", "I", "}", "}",
          "1", " ", "{", "U+00D2", "}", "{", "{", "\\", "BACKTICK", "O", "}",
          "}", "1", " ", "{", "U+00D9", "}", "{", "{", "\\", "BACKTICK", "U",
          "}", "}", "1">>
        \o <<"\n", "\t", "{", "U+00E4", "}", "{", "{", "\\", "\"", "a", "}",
          "}", "1", " ", "{", "U+00EB", "}", "{", "{", "\\", "\"", "e", "}",
          "}", "1", " ", "{", "U+00EF", "}", "{", "{", "\\", "\"", "i", "}",
          "}", "1", " ", "{", "U+00F6", "}", "{", "{", "\\", "\"", "o", "}",
          "}", "1", " ", "{", "U+00FC", "}", "{", "{", "\\", "\"", "u", "}",
          "}", "1", "\n", "\t", "{", "U+00C4", "}", "{", "{", "\\", "\"",
          "A", "}", "}", "1", " ", "{", "U+00CB", "}", "{", "{", "\\", "\"",
          "E", "}", "}", "1", " ", "{", "U+00CF", "}", "{", "{", "\\", "\"",
          "I", "}", "}", "1", " ", "{", "U+00D6", "}", "{", "{", "\\", "\"",
          "O", "}", "}", "1", " ", "{", "U+00DC", "}", "{", "{", "\\", "\"",
          "U", "}", "}", "1", "\n", "\t", "{", "U+00E2", "}", "{", "{", "\\",
          "^", "a", "}", "}", "1", " ", "{", "U+00EA", "}", "{", "{", "\\",
          "^", "e", "}", "}", "1", " ", "{", "U+00EE", "}", "{", "{", "\\",
          "^", "i", "}", "}", "1", " ", "{", "U+00F4", "}", "{", "{", "\\",
          "^", "o", "}", "}", "1", " ", "{", "U+00FB", "}", "{", "{", "\\",
          "^", "u", "}", "}", "1", "\n", "\t", "{", "U+00C2", "}", "{", "{",
          "\\", "^", "A", "}", "}", "1", " ", "{", "U+00CA", "}", "{", "{",
          "\\", "^", "E", "}", "}", "1", " ", "{", "U+00CE", "}", "{", "{",
          "\\", "^", "I", "}", "}", "1", " ", "{", "U+00D4", "}", "{", "{",
          "\\", "^", "O", "}", "}", "1", " ", "{", "U+00DB", "}", "{", "{",
          "\\", "^", "U", "}", "}", "1", "\n", "\t", "{", "U+0153", "}", "{",
          "{", "\\", "o", "e", "}", "}", "1", " ", "{", "U+0152", "}", "{",
          "{", "\\", "O", "E", "}", "}", "1", " ", "{", "U+00E6", "}", "{",
          "{", "\\", "a", "e", "}", "}", "1", " ", "{", "U+00C6", "}", "{",
          "{", "\\", "A", "E", "}", "}", "1", " ", "{", "U+00DF", "}", "{",
          "{", "\\", "s", "s", "}", "}", "1", "\n", "\t", "{", "U+0171", "}",
          "{", "{", "\\", "H", "{", "u", "}", "}", "}", "1", " ", "{",
          "U+0170", "}", "{", "{", "\\", "H", "{", "U", "}", "}", "}", "1",
          " ", "{", "U+0151", "}", "{", "{", "\\", "H", "{", "o", "}", "}",
          "}", "1", " ", "{", "U+0150", "}", "{", "{", "\\", "H", "{", "O",
          "}", "}", "}", "1", "\n", "\t", "{", "U+00E7", "}", "{", "{", "\\",
          "c", " ", "c", "}", "}", "1", " ", "{", "U+00C7", "}", "{", "{",
          "\\", "c", " ", "C", "}", "}", "1", " ", "{", "U+00F8", "}", "{",
          "{", "\\", "o", "}", "}", "1", " ", "{", "U+00E5", "}", "{", "{",
          "\\", "r", " ", "a", "}", "}", "1", " ", "{", "U+00C5", "}", "{",
          "{", "\\", "r", " ", "A", "}", "}", "1", "\n", "\t", "{", "U+20AC",
          "}", "{", "{", "\\", "E", "U", "R", "}", "}", "1", " ", "{",
          "U+00A3", "}", "{", "{", "\\", "p", "o", "u", "n", "d", "s", "}",
          "}", "1", "\n", "}", "\n">>

\* The preamble from the csquotes package to the version of the parser.
preambleHypersetup ==
    <<"\\", "u", "s", "e", "p", "a", "c", "k", "a", "g", "e", "{", "c",
          "s", "q", "u", "o", "t", "e", "s", "}", "\n", "\n", "\\", "h", "y",
          "p", "e", "r", "s", "e", "t", "u", "p", "{", "c", "o", "l", "o",
          "r", "l", "i", "n", "k", "s", ",", "\n", "\t", "c", "i", "t", "e",
          "c", "o", "l", "o", "r", "=", "b", "l", "a", "c", "k", ",", "\n",
          "\t", "f", "i", "l", "e", "c", "o", "l", "o", "r", "=", "b", "l",
          "a", "c", "k", ",", "\n", "\t", "l", "i", "n", "k", "c", "o", "l",
          "o", "r", "=", "b", "l", "a", "c", "k", ",", "\n", "\t", "l", "i",
          "n", "k", "t", "o", "c", "=", "p", "a", "g", "e", ",", "\n", "\t",
          "u", "r", "l", "c", "o", "l", "o", "r", "=", "b", "l", "a", "c",
          "k", ",", "\n", "\t", "p", "d", "f", "s", "t", "a", "r", "t", "v",
          "i", "e", "w", "=", "F", "i", "t", "H", ",", "\n", "\t", "b", "r",
          "e", "a", "k", "l", "i", "n", "k", "s", "=", "t", "r", "u", "e",
          ",", "\n", "\t", "p", "d", "f", "a", "u", "t", "h", "o", "r", "=",
          "{", "B", "l", "a", "c", "k", "f", "r", "i", "d", "a", "y", " ",
          "M", "a", "r", "k", "d", "o", "w", "n", " ", "P", "r", "o", "c",
          "e", "s", "s", "o", "r", " ", "v">>

\* The preamble after the version of the parser.
preambleEnd ==
    <<"}", ",", "\n", "}", "\n", "\n", "\\", "n", "e", "w", "c", "o",
          "m", "m", "a", "n", "d", "{", "\\", "H", "R", "u", "l", "e", "}",
          "{", "\\", "r", "u", "l", "e", "{", "\\", "l", "i", "n", "e", "w",
          "i", "d", "t", "h", "}", "{", "0", ".", "5", "m", "m", "}", "}",
          "\n", "\\", "a", "d", "d", "t", "o", "l", "e", "n", "g", "t", "h",
          "{", "\\", "p", "a", "r", "s", "k", "i", "p", "}", "{", "0", ".",
          "5", "\\", "b", "a", "s", "e", "l", "i", "n", "e", "s", "k", "i",
          "p", "}", "\n">>

\* The header of a complete page for the title g.w that getTitle renders,
\* leaving the tree g.tree: the writes of RenderHeader in their order.
pageHeader(s, g) ==
    LET title == g.w IN
    IF g.panic THEN Panic([s EXCEPT !.tree = g.tree])
    ELSE Put([s EXCEPT !.tree = g.tree],
             preambleStart
             \o (IF Languages # <<>>
                 THEN <<"\n", "\\", "u", "s", "e", "p", "a", "c", "k", "a", "g", "e", "[">> \o Languages \o <<"]", "{", "b", "a", "b", "e", "l", "}", "\n">>
                 ELSE <<>>)
             \o preambleHypersetup \o Version \o preambleEnd
             \o (IF "NoParIndent" \in s.Flags THEN <<"\\", "p", "a", "r", "i", "n", "d", "e", "n", "t", "=", "0", "p",
          "t", "\n">> ELSE <<>>)
             \o (IF title # <<>>
                 THEN <<"\n", "\\", "t", "i", "t", "l", "e", "{">> \o title \o <<"}", "\n", "\\", "a", "u", "t", "h", "o", "r", "{">> \o Author \o <<"}", "\n">>
                 ELSE <<>>)
             \o <<"\n", "\\", "b", "e", "g", "i", "n", "{", "d", "o", "c", "u", "m",
          "e", "n", "t", "}", "\n">>
             \o (IF title # <<>>
                 THEN <<"\n", "\\", "m", "a", "k", "e", "t", "i", "t", "l", "e", "\n">>
                      \o (IF "TOC" \in s.Flags
                          THEN <<"\\", "v", "f", "i", "l", "l", "\n", "\\", "t", "h", "i", "s", "p",
          "a", "g", "e", "s", "t", "y", "l", "e", "{", "e", "m", "p", "t",
          "y", "}", "\n", "\n", "\\", "t", "a", "b", "l", "e", "o", "f", "c",
          "o", "n", "t", "e", "n", "t", "s", "\n">>
                               \o (IF hasFigures(g.tree) THEN <<"\\", "l", "i", "s", "t", "o", "f", "f", "i", "g", "u", "r", "e",
          "s", "\n">> ELSE <<>>)
                               \o <<"\\", "c", "l", "e", "a", "r", "p", "a", "g", "e", "\n">>
                          ELSE <<>>)
                 ELSE <<>>)
             \o <<"\n", "\n">>)

\* The header without CompletePage, for the title RenderHeader holds.
chapterHeader(s, title) ==
    IF "ChapterTitle" \in s.Flags /\ TrimSpace(title) # <<>>
    THEN Put(s, <<"\\", "c", "h", "a", "p", "t", "e", "r", "{">> \o title \o <<"}", "\n", "\n">>)
    ELSE s

\* r.RenderHeader(w, ast): the title is assigned in the CompletePage
\* branch only.
renderHeader(s) ==
    IF "CompletePage" \in s.Flags
    THEN pageHeader(s, getTitle(s.tree))
    ELSE chapterHeader(s, <<>>)

\* A footer written whatever the flags.
renderFooterAlways(s) == Put(s, <<"\\", "e", "n", "d", "{", "d", "o", "c", "u", "m", "e", "n", "t", "}", "\n">>)

\* r.RenderFooter(w, ast)
renderFooter(s) ==
    IF "CompletePage" \in s.Flags
    THEN Put(s, <<"\\", "e", "n", "d", "{", "d", "o", "c", "u", "m", "e", "n", "t", "}", "\n">>)
    ELSE s

\* r.RenderHeader(w, ast), the first step of Render.  A panic in getTitle
\* ends the render.
RenderHeader ==
    /\ pc = "header"
    /\ LET s1 == renderHeader(callState) IN
        /\ out' = out \o s1.w
        /\ header' = s1.w
        /\ tree' = s1.tree
        /\ pc' = IF s1.panic THEN "panic" ELSE "walk"
    /\ UNCHANGED <<Flags, EnvQuotation, quoted, quoteOpen, cur, ent, last,
                   Author, Languages, made, footer, prior,
                   HtmlBlockHandler>>

\* One turn of the loop of ast.Walk in Render: the visitor call on the
\* current node and the walker's move.  A panic ends the render.
Visit ==
    /\ pc = "walk"
    /\ LET s1 == visitor(callState, cur, ent)
           nx == walkAfter(s1.tree, Root, cur, ent, s1.status)
       IN  /\ out' = out \o s1.w
           /\ quoted' = s1.quoted
           /\ quoteOpen' = s1.quoteOpen
           /\ tree' = s1.tree
           /\ HtmlBlockHandler' = s1.HtmlBlockHandler
           /\ last' = [node |-> cur, entering |-> ent, w |-> s1.w,
                       status |-> s1.status, panic |-> s1.panic,
                       msg |-> s1.msg,
                       quoted0 |-> quoted, quoteOpen0 |-> quoteOpen]
           /\ IF s1.panic
              THEN pc' = "panic" /\ UNCHANGED <<cur, ent>>
              ELSE /\ cur' = nx.current
                   /\ ent' = nx.entering
                   /\ pc' = IF nx.current = NIL THEN "footer" ELSE "walk"
    /\ UNCHANGED <<Flags, EnvQuotation, Author, Languages, made, header, footer,
                   prior>>

\* r.RenderFooter(w, ast), the last step of Render.
RenderFooter ==
    /\ pc = "footer"
    /\ LET s1 == renderFooter(callState) IN
        /\ out' = out \o s1.w
        /\ footer' = s1.w
    /\ pc' = "done"
    /\ UNCHANGED <<tree, Flags, EnvQuotation, quoted, quoteOpen, cur, ent, last,
                   Author, Languages, made, header, prior,
                   HtmlBlockHandler>>

\* Render(w, ast): the header, the walk, the footer.
Next == RenderHeader \/ Visit \/ RenderFooter

----------------------------------------------------------------------------
(* Trees.                                                                  *)

MinOrNil(S) == IF S = {} THEN NIL ELSE CHOOSE x \in S : \A y \in S : x <= y

MaxOrNil(S) == IF S = {} THEN NIL ELSE CHOOSE x \in S : \A y \in S : x >= y

\* The tree of the nodes d, given with their Parent fields and in document
\* order: the child and sibling pointers as the parser's AppendChild sets
\* them.
MkTree(d) ==
    LET kids(p) == {i \in 1..Len(d) : d[i].Parent = p}
    IN  [i \in 1..Len(d) |->
            [d[i] EXCEPT
                !.FirstChild = MinOrNil(kids(i)),
                !.LastChild  = MaxOrNil(kids(i)),
                !.Prev = IF d[i].Parent = NIL THEN NIL
                         ELSE MaxOrNil({j \in kids(d[i].Parent) : j < i}),
                !.Next = IF d[i].Parent = NIL THEN NIL
                         ELSE MinOrNil({j \in kids(d[i].Parent) : j > i})]]

Child(type, parent) == [Node(type) EXCEPT !.Parent = parent]

TextNode(parent, literal) == [Child("Text", parent) EXCEPT !.Literal = literal]

\* NewRenderer(opts): an unset EnvQuotation becomes "quotation".
NewRenderer(env) == IF env = <<>> THEN <<"q", "u", "o", "t", "a", "t", "i", "o", "n">> ELSE env

\* Opts with the given flags and quotation environment, the other fields
\* at their zero value.
Opts(flags, env) ==
    [Flags |-> flags, Author |-> <<>>, Languages |-> <<>>, EnvQuotation |-> env,
     HtmlBlockHandler |-> noHandler]

\* The Opts of the Renderer of Run: Opts{Flags: CompletePage | TOC}.
RunOpts == Opts({"CompletePage", "TOC"}, <<>>)

\* No visitor call made yet.
noCall ==
    [node |-> NIL, entering |-> FALSE, w |-> <<>>,
     status |-> "GoToNext", panic |-> FALSE, msg |-> <<>>,
     quoted0 |-> FALSE, quoteOpen0 |-> FALSE]

\* The Renderer made from opts by NewRenderer(opts), by the composite
\* literal &Renderer{Opts: opts} or, with the flags of Run, inside Run, set
\* to render the tree t.
Start(t, by, opts) ==
    /\ by \in {"NewRenderer", "Renderer", "Run"}
    /\ by = "Run" => opts = RunOpts
    /\ tree = t
    /\ Flags = opts.Flags
    /\ Author = opts.Author
    /\ Languages = opts.Languages
    /\ EnvQuotation = (IF by = "NewRenderer"
                       THEN NewRenderer(opts.EnvQuotation)
                       ELSE opts.EnvQuotation)
    /\ made = [by |-> by, EnvQuotation |-> opts.EnvQuotation]
    /\ HtmlBlockHandler = opts.HtmlBlockHandler
    /\ quoted = FALSE
    /\ quoteOpen = FALSE
    /\ out = <<>>
    /\ header = <<>>
    /\ footer = <<>>
    /\ cur = Root
    /\ ent = TRUE
    /\ pc = "header"
    /\ last = noCall
    /\ prior = [done |-> FALSE, out |-> <<>>]

----------------------------------------------------------------------------
(* Documents of Text runs, for Escape.                                     *)

\* The characters of latexEscaper that Escape replaces by a fixed string.
Specials == {"#", "$", "%", "&", "\\", "_", "{", "}", "~"}

\* The texts of at most n characters over the alphabet A.
RECURSIVE TextsUpTo(_, _)
TextsUpTo(A, n) ==
    IF n = 0 THEN {<<>>}
    ELSE LET shorter == TextsUpTo(A, n - 1)
         IN  shorter \cup {Append(t, c) : t \in {u \in shorter : Len(u) = n - 1}, c \in A}

\* The ways to cut a text of length n into k runs, none empty: the k - 1
\* cut positions.
Cuts(n, k) ==
    {c \in [1..(k - 1) -> 1..(n - 1)] : \A i \in 1..(k - 2) : c[i] < c[i + 1]}

\* The runs of text t cut at the positions c.
Runs(t, c) ==
    [i \in 1..(Len(c) + 1) |->
        SubSeq(t,
               (IF i = 1 THEN 0 ELSE c[i - 1]) + 1,
               IF i = Len(c) + 1 THEN Len(t) ELSE c[i])]

\* A Document whose children are Text nodes with the literals runs.
TextDoc(runs) ==
    MkTree(<<Node("Document")>> \o [i \in 1..Len(runs) |-> TextNode(Root, runs[i])])

EscapeDocs ==
    {TextDoc(Runs(t, c)) :
        <<t, c>> \in UNION {
            {<<t, c>> : c \in UNION {Cuts(Len(t), k) : k \in 1..MaxRuns}} :
            t \in UNION {TextsUpTo({"a", " ", ".", "\"", "'", x}, MaxTextLen) :
                         x \in Specials}}}

InitEscape == \E t \in EscapeDocs : Start(t, "NewRenderer", Opts({}, <<>>))

SpecEscape == InitEscape /\ [][Next]_vars

----------------------------------------------------------------------------
(* Documents of one inline code span, for getDelimiter.                    *)

\* The sequence s without its element at index m (all of s when m = 0).
Without(s, m) ==
    IF m = 0 THEN s ELSE SubSeq(s, 1, m - 1) \o SubSeq(s, m + 1, Len(s))

\* Code literals: the first b bytes of ASCII with one byte or none left
\* out, as they are or behind the inline math marker.
CodeLiterals ==
    {prefix \o Without(SubSeq(ASCII, 1, b), m) :
        <<prefix, b, m>> \in
            {<<p, b, m>> \in {<<>>, <<"$", "$", " ">>} \X (0..Len(ASCII)) \X (0..Len(ASCII)) :
                m <= b}}

CodeDoc(literal) ==
    MkTree(<<Node("Document"), [Child("Code", Root) EXCEPT !.Literal = literal]>>)

InitCode == \E l \in CodeLiterals : Start(CodeDoc(l), "NewRenderer", Opts({}, <<>>))

SpecCode == InitCode /\ [][Next]_vars

----------------------------------------------------------------------------
(* Documents with a link and a footnote, and documents with a heading.     *)

\* The nodes of a link's children, by shape, for a link at index l with
\* destination dest: none, the destination as text, another text, two
\* texts, or an emphasis.
LinkChildren(l, dest) ==
    { <<>>,
      <<TextNode(l, dest)>>,
      <<TextNode(l, <<"f", "o", "o">>)>>,
      <<TextNode(l, dest), TextNode(l, <<"b">>)>>,
      <<Child("Emph", l), TextNode(l + 1, dest)>> }

\* The nodes of a footnote's body under the Item at index f.
FootnoteBodies(f) ==
    { <<TextNode(f, <<"b", "a", "r">>)>>,
      <<TextNode(f, <<"'", "b">>)>>,
      <<Child("Paragraph", f), TextNode(f + 1, <<"b", "_">>),
        Child("Paragraph", f), TextNode(f + 3, <<"c">>)>> }

\* Document > Paragraph > (Text, Link > children), followed by the footnotes
\* list List > Item > body when the link refers to a footnote.
LinkDoc(dest, noteID, kids, body) ==
    LET f == 6 + Len(kids) IN
    MkTree(<<Node("Document"),
             Child("Paragraph", 1),
             TextNode(2, <<"a">>),
             [Child("Link", 2) EXCEPT !.Destination = dest, !.NoteID = noteID,
                                      !.Footnote = IF noteID # 0 THEN f ELSE NIL]>>
           \o kids
           \o (IF noteID # 0
               THEN <<[Child("List", 1) EXCEPT !.IsFootnotesList = TRUE,
                                               !.ListFlags = {"Ordered"}],
                      Child("Item", 5 + Len(kids))>> \o body
               ELSE <<>>))

Dests == {<<"h", "t", "t", "p", ":", "/", "/", "e">>, <<"x", ":", "e">>}

LinkDocs ==
    UNION {
        UNION { {LinkDoc(dest, 0, kids, <<>>)}
                \cup {LinkDoc(dest, 1, kids, body) :
                        body \in FootnoteBodies(6 + Len(kids))} :
                kids \in LinkChildren(4, dest) } :
        dest \in Dests }

\* The nodes of a heading's children under the Heading at index h.
HeadingChildren(h) ==
    { <<>>,
      <<TextNode(h, <<"f", "o", "o">>)>>,
      <<Child("Emph", h), TextNode(h + 1, <<"f">>)>> }

\* Document > (Heading > children, Paragraph > Text).
HeadingDoc(level, config, titleblock, kids) ==
    MkTree(<<Node("Document"),
             [Child("Heading", 1) EXCEPT !.Level = level, !.Config = config,
                                         !.IsTitleblock = titleblock]>>
           \o kids
           \o <<Child("Paragraph", 1), TextNode(3 + Len(kids), <<"t">>)>>)

HeadingDocs ==
    {HeadingDoc(level, config, tb, kids) :
        <<level, config, tb, kids>> \in
            (1..MaxLevel) \X {<<>>, <<"*">>, <<"*", "*">>, <<"x">>} \X BOOLEAN \X HeadingChildren(2)}

Docs == LinkDocs \cup HeadingDocs

\* The nodes of a block quote's children under the BlockQuote at index b:
\* none, an empty paragraph, a list, a quote without attribution, a quote
\* whose last line is the attribution, whose first byte is the line break
\* before it, whose only text is the attribution, whose last of two texts
\* or last of two paragraphs is the attribution.
QuoteChildren(b) ==
    { <<>>,
      <<Child("Paragraph", b)>>,
      <<Child("List", b)>>,
      <<Child("Paragraph", b), TextNode(b + 1, <<"q">>)>>,
      <<Child("Paragraph", b), TextNode(b + 1, <<"q", "\n", "-", "-", " ", "A", " ">>)>>,
      <<Child("Paragraph", b), TextNode(b + 1, <<"\n", "-", "-", " ", "A">>)>>,
      <<Child("Paragraph", b), TextNode(b + 1, <<"-", "-", " ", " ", "A">>)>>,
      <<Child("Paragraph", b), TextNode(b + 1, <<"q">>), TextNode(b + 1, <<"-", "-", " ", "A">>)>>,
      <<Child("Paragraph", b), TextNode(b + 1, <<"q">>),
        Child("Paragraph", b), TextNode(b + 3, <<"-", "-", " ", "A">>)>> }

\* Document > (BlockQuote > children, Paragraph > Text).
QuoteDoc(kids) ==
    MkTree(<<Node("Document"), Child("BlockQuote", 1)>>
           \o kids
           \o <<Child("Paragraph", 1), TextNode(3 + Len(kids), <<"t">>)>>)

QuoteDocs == {QuoteDoc(kids) : kids \in QuoteChildren(2)}

\* The borders of a table: every choice of the left, right and column
\* flags, with the top, bottom and row flags all unset or all set.
Borders ==
    {[Left |-> l, Rigth |-> r, Column |-> c, Top |-> h, Bottom |-> h, Row |-> h] :
        <<l, r, c, h>> \in BOOLEAN \X BOOLEAN \X BOOLEAN \X BOOLEAN}

\* The options and alignment of a cell: no options map, an empty map, a
\* separator asked for or refused, a width, a width and a separator.
CellOpts ==
    { [OptsNil |-> TRUE,  OptsWidth |-> <<>>,     OptsSep |-> "absent", Align |-> ""],
      [OptsNil |-> TRUE,  OptsWidth |-> <<>>,     OptsSep |-> "absent", Align |-> "Center"],
      [OptsNil |-> TRUE,  OptsWidth |-> <<>>,     OptsSep |-> "absent", Align |-> "Left"],
      [OptsNil |-> TRUE,  OptsWidth |-> <<>>,     OptsSep |-> "absent", Align |-> "Right"],
      [OptsNil |-> FALSE, OptsWidth |-> <<>>,     OptsSep |-> "absent", Align |-> "Left"],
      [OptsNil |-> FALSE, OptsWidth |-> <<>>,     OptsSep |-> "true",   Align |-> "Right"],
      [OptsNil |-> FALSE, OptsWidth |-> <<>>,     OptsSep |-> "false",  Align |-> ""],
      [OptsNil |-> FALSE, OptsWidth |-> <<"0", ".", "5">>,  OptsSep |-> "absent", Align |-> "Right"],
      [OptsNil |-> FALSE, OptsWidth |-> <<"0", ".", "5">>,  OptsSep |-> "true",   Align |-> "Center"] }

\* A cell under the row at index r.
Cell(r, isHeader, isLast, o) ==
    [Child("TableCell", r) EXCEPT !.IsHeader = isHeader, !.CellIsLast = isLast,
                                  !.OptsNil = o.OptsNil, !.OptsWidth = o.OptsWidth,
                                  !.OptsSep = o.OptsSep, !.Align = o.Align]

\* Document > Table > (TableHead > TableRow > two cells, TableBody > two
\* TableRows of two cells), each cell with a Text.
TableDoc(border, o1, o2) ==
    MkTree(<<Node("Document"),
             [Child("Table", 1) EXCEPT !.Border = border],
             Child("TableHead", 2),
             [Child("TableRow", 3) EXCEPT !.RowIsLast = TRUE],
             Cell(4, TRUE, FALSE, o1), TextNode(5, <<"h">>),
             Cell(4, TRUE, TRUE, o2),  TextNode(7, <<"i">>),
             Child("TableBody", 2),
             Child("TableRow", 9),
             Cell(10, FALSE, FALSE, o1), TextNode(11, <<"a">>),
             Cell(10, FALSE, TRUE, o2),  TextNode(13, <<"b">>),
             [Child("TableRow", 9) EXCEPT !.RowIsLast = TRUE],
             Cell(15, FALSE, FALSE, o1), TextNode(16, <<"c">>),
             Cell(15, FALSE, TRUE, o2)>>)

\* The table of TestTable: a header row and a body row of four cells
\* aligned by default, left, center and right.
TestTableDoc(border) ==
    LET o(a) == [OptsNil |-> TRUE, OptsWidth |-> <<>>, OptsSep |-> "absent",
                 Align |-> a]
    IN
    MkTree(<<Node("Document"),
             [Child("Table", 1) EXCEPT !.Border = border],
             Child("TableHead", 2),
             [Child("TableRow", 3) EXCEPT !.RowIsLast = TRUE],
             Cell(4, TRUE, FALSE, o("")),       TextNode(5, <<"h">>),
             Cell(4, TRUE, FALSE, o("Left")),   TextNode(7, <<"i">>),
             Cell(4, TRUE, FALSE, o("Center")), TextNode(9, <<"j">>),
             Cell(4, TRUE, TRUE, o("Right")),   TextNode(11, <<"k">>),
             Child("TableBody", 2),
             [Child("TableRow", 13) EXCEPT !.RowIsLast = TRUE],
             Cell(14, FALSE, FALSE, o("")),       TextNode(15, <<"a">>),
             Cell(14, FALSE, FALSE, o("Left")),   TextNode(17, <<"b">>),
             Cell(14, FALSE, FALSE, o("Center")), TextNode(19, <<"c">>),
             Cell(14, FALSE, TRUE, o("Right")),   TextNode(21, <<"d">>)>>)

\* Document > Table without rows.
EmptyTableDoc(border) ==
    MkTree(<<Node("Document"), [Child("Table", 1) EXCEPT !.Border = border]>>)

TableDocs ==
    {TableDoc(border, o1, o2) : <<border, o1, o2>> \in Borders \X CellOpts \X CellOpts}
    \cup {EmptyTableDoc(border) : border \in Borders}
    \cup {TestTableDoc(border) : border \in Borders}

\* The destinations of an image: web addresses in several letter cases,
\* files with and without extension, and an address whose colon and
\* slashes are replaced by the bytes 0x1A and 0x0F, 32 below them.
ImageDests ==
    { <<"h", "t", "t", "p", ":", "/", "/", "e", "/", "a", ".", "j", "p", "g">>, <<"H", "T", "T", "P", "S", ":", "/", "/", "e">>, <<"h", "T", "t", "P", ":", "/", "/", "e">>,
      <<"h", "t", "t", "p", "SUB", "SI", "SI", "e">>,
      <<"f", "o", "o", "b", "a", "r", ".", "j", "p", "g">>, <<"a", ".", "b", "/", "c">>, <<"a", "/", ".", "x">>, <<"f", "t", "p", ":", "/", "/", "e", ".", "d", "/", "f", ".", "p", "n", "g">>, <<"h", "t", "t", "p", ":", "/", "e", ".", "g">> }

\* Document > Paragraph > (Text, Image > Text, Text).
ImageDoc(dest, titleNil, title) ==
    MkTree(<<Node("Document"),
             Child("Paragraph", 1),
             TextNode(2, <<"a">>),
             [Child("Image", 2) EXCEPT !.Destination = dest,
                                       !.TitleNil = titleNil, !.Title = title],
             TextNode(4, <<"a", "l", "t">>),
             TextNode(2, <<"z">>)>>)

ImageDocs ==
    {ImageDoc(dest, TRUE, <<>>) : dest \in ImageDests}
    \cup {ImageDoc(dest, FALSE, title) :
            <<dest, title>> \in ImageDests \X {<<>>, <<"f", "o", "o">>}}

\* Document > List > two Items > Paragraph > Text, for the flags of the list
\* and of its items; a footnotes list or not.
ListDoc(listFlags, itemFlags1, itemFlags2, footnotes) ==
    MkTree(<<Node("Document"),
             [Child("List", 1) EXCEPT !.ListFlags = listFlags,
                                      !.IsFootnotesList = footnotes],
             [Child("Item", 2) EXCEPT !.ListFlags = itemFlags1],
             Child("Paragraph", 3),
             TextNode(4, <<"f", "o", "o">>),
             [Child("Item", 2) EXCEPT !.ListFlags = itemFlags2],
             Child("Paragraph", 6),
             TextNode(7, <<"b", "a", "r">>)>>)

ListDocs ==
    {ListDoc(lf, if1, if2, fn) :
        <<lf, if1, if2, fn>> \in
            (SUBSET {"Ordered", "Definition"})
            \X (SUBSET {"Definition", "Term"})
            \X {{}, {"Ordered"}, {"Definition"}, {"Definition", "Term"}}
            \X BOOLEAN}

\* A node type the switch of RenderNode has no case for.
UnknownType == "NodeType(24)"

\* Document > (a node of the type without children, Paragraph > Text), for
\* the unrecognized type and for the types whose rendering reads no node
\* around the one rendered; BlockQuote, Link and TableRow are in the
\* documents above, with their children and parents.
TypeDocs ==
    {MkTree(<<Node("Document"),
              [Child(type, 1) EXCEPT !.Level = 1],
              Child("Paragraph", 1),
              TextNode(3, <<"t">>)>>) :
        type \in (NodeTypes \ {"BlockQuote", "Link", "TableRow"})
                     \cup {UnknownType}}

\* The flag sets a Renderer is created with.
FlagSets == SUBSET {"SkipLinks", "Safelink"}

Init ==
    \/ \E t \in Docs, flags \in FlagSets, by \in {"Renderer", "NewRenderer"} :
            Start(t, by, Opts(flags, <<>>))
    \/ \E t \in QuoteDocs, by \in {"Renderer", "NewRenderer"} :
            Start(t, by, Opts({}, <<>>))
    \/ \E t \in TableDocs \cup ImageDocs \cup ListDocs :
            Start(t, "NewRenderer", Opts({}, <<>>))
    \/ \E t \in TypeDocs, flags \in FlagSets :
            Start(t, "NewRenderer", Opts(flags, <<>>))

Spec == Init /\ [][Next]_vars

----------------------------------------------------------------------------
(* Documents with a title block, rendered as pages.                        *)

\* The nodes of a title block's children under the Heading at index h:
\* none, a title, a blank title, a title with emphasis and a special
\* character.
TitleChildren(h) ==
    { <<>>,
      <<TextNode(h, <<"T">>)>>,
      <<TextNode(h, <<" ">>)>>,
      <<TextNode(h, <<"a", "_">>), Child("Emph", h), TextNode(h + 2, <<"b">>)>> }

\* The nodes of an image under the paragraph at index par, with a title,
\* without one, or none.
PageImages(par) ==
    { <<>>,
      <<[Child("Image", par) EXCEPT !.Destination = <<"f", ".", "p", "n", "g">>]>>,
      <<[Child("Image", par) EXCEPT !.Destination = <<"f", ".", "p", "n", "g">>,
                                    !.TitleNil = FALSE, !.Title = <<"c", "a", "p">>]>>,
      <<[Child("Image", par) EXCEPT !.Destination = <<"h", "t", "t", "p", ":", "/", "/", "e">>,
                                    !.TitleNil = FALSE, !.Title = <<"c", "a", "p">>]>> }

\* Document > (Heading > children, Paragraph > (Text, image)), the heading
\* a title block or a heading of level 1.
PageDoc(titleblock, kids, image) ==
    MkTree(<<Node("Document"),
             [Child("Heading", 1) EXCEPT !.IsTitleblock = titleblock, !.Level = 1]>>
           \o kids
           \o <<Child("Paragraph", 1), TextNode(3 + Len(kids), <<"t">>)>>
           \o image)

PageDocs ==
    UNION { {PageDoc(tb, kids, image) :
                tb \in BOOLEAN, image \in PageImages(3 + Len(kids))} :
            kids \in TitleChildren(2) }

\* The flag sets of a page.
PageFlagSets == SUBSET {"CompletePage", "ChapterTitle", "NoParIndent", "TOC"}

\* Renders of pages by a Renderer with or without author and languages,
\* renders by Run, and renders of block quotes by a Renderer of each maker
\* with the quotation environment unset or set.
InitPage ==
    \/ \E t \in PageDocs, flags \in PageFlagSets,
           al \in {<<<<>>, <<>>>>, <<<<"A">>, <<"f", "r">>>>} :
            Start(t, "NewRenderer",
                  [Opts(flags, <<>>) EXCEPT !.Author = al[1], !.Languages = al[2]])
    \/ \E t \in PageDocs \cup QuoteDocs : Start(t, "Run", RunOpts)
    \/ \E t \in QuoteDocs, by \in {"Renderer", "NewRenderer"},
           env \in {<<>>, <<"q", "u", "o", "t", "e">>} :
            Start(t, by, Opts({}, env))

SpecPage == InitPage /\ [][Next]_vars


----------------------------------------------------------------------------
(* The same tree rendered twice.                                           *)

\* A second Render of the tree the first Render leaves, by a fresh
\* Renderer built from the same options into a writer of its own.
RenderAgain ==
    /\ pc = "done"
    /\ ~prior.done
    /\ prior' = [done |-> TRUE, out |-> out]
    /\ out' = <<>>
    /\ header' = <<>>
    /\ footer' = <<>>
    /\ quoted' = FALSE
    /\ quoteOpen' = FALSE
    /\ cur' = Root
    /\ ent' = TRUE
    /\ last' = noCall
    /\ pc' = "header"
    /\ UNCHANGED <<tree, Flags, EnvQuotation, Author, Languages, made,
                   HtmlBlockHandler>>

NextTwice == Next \/ RenderAgain

InitTwice == Init \/ InitPage \/ InitEscape

SpecTwice == InitTwice /\ [][NextTwice]_vars

----------------------------------------------------------------------------
(* HTML blocks rendered with the handler of Exec.                          *)

\* The literals of an HTML block: comments of the raw-LaTeX convention
\* with the id K, an id that is not configured and no id, with and
\* without a space after the colons, a comment without newline, one
\* followed by a newline, and a tag.
HtmlLiterals ==
    { <<"<", "!", "-", "-", " ", ":", ":", "K", "\n", " ", "x", " ", "\n", "-", "-", ">">>, <<"<", "!", "-", "-", " ", ":", ":", " ", "K", "\n", "x", "\n", "-", "-", ">">>,
      <<"<", "!", "-", "-", " ", ":", ":", "\n", " ", "x", "\n", "-", "-", ">">>,   <<"<", "!", "-", "-", " ", ":", ":", " ", "\n", "x", "\n", "-", "-", ">">>,
      <<"<", "!", "-", "-", " ", ":", ":", "Z", "\n", "x", "\n", "-", "-", ">">>,   <<"<", "!", "-", "-", " ", ":", ":", " ", "Z", "\n", "x", "\n", "-", "-", ">">>,
      <<"<", "!", "-", "-", " ", ":", ":", "K", "\n", "y", "\n", "-", "-", ">", "\n">>, <<"<", "!", "-", "-", " ", ":", ":", "K", " ", "-", "-", ">">>, <<"<", "b", ">">> }

\* Document > (HTMLBlock, Paragraph > (Text, HTMLSpan), HTMLBlock).
HtmlDoc(l1, l2) ==
    MkTree(<<Node("Document"),
             [Child("HTMLBlock", 1) EXCEPT !.Literal = l1],
             Child("Paragraph", 1),
             TextNode(3, <<"t">>),
             [Child("HTMLSpan", 3) EXCEPT !.Literal = <<"<", "i", ">">>],
             [Child("HTMLBlock", 1) EXCEPT !.Literal = l2]>>)

HtmlDocs == {HtmlDoc(l1, l2) : <<l1, l2>> \in HtmlLiterals \X HtmlLiterals}

\* The handler Exec installs, over a cfg.LatexRawFiles with the id K and
\* without values yet.
execHandler ==
    [installed |-> TRUE, LatexRawFiles |-> [id \in {<<"K">>} |-> <<>>]]

\* Exec: NewRenderer(cfg.Opts) with the handler installed; and the same
\* documents rendered without handler.
InitExec ==
    \E t \in HtmlDocs, h \in {execHandler, noHandler} :
        Start(t, "NewRenderer", [Opts({}, <<>>) EXCEPT !.HtmlBlockHandler = h])

SpecExec == InitExec /\ [][Next]_vars
----------------------------------------------------------------------------
(* Properties.                                                             *)

\* The node of the visitor call made last is of the given type.
LastIs(type) == last.node # NIL /\ tree[last.node].Type = type

LastNode == tree[last.node]

\* The escaping of one character that is neither quote nor apostrophe.
Escaped(c) ==
    IF c \in {"#", "$", "%", "&", "_", "{", "}", "~"} THEN <<"\\", c>>
    ELSE IF c = "\\" THEN <<"\\", "t", "e", "x", "t", "b", "a", "c", "k", "s", "l", "a", "s", "h", "{", "}">>
    ELSE <<c>>

\* C1: a Text literal without straight double quote and apostrophe is
\* written character by character in input order: a backslash and the
\* character for each of # $ % & _ { } ~, \textbackslash{} for a backslash,
\* any other character as it is.
C1_EscapeMapping ==
    (LastIs("Text") /\ Chars(LastNode.Literal) \cap {"\"", "'"} = {})
    => /\ ~last.panic
       /\ last.w = Flatten([i \in 1..Len(LastNode.Literal) |->
                               Escaped(LastNode.Literal[i])])

\* C1 happens: a literal with a backslash, another special character or a
\* plain one, and no quote has been escaped.
C1_Witness ==
    /\ LastIs("Text")
    /\ Chars(LastNode.Literal) \cap {"\"", "'"} = {}
    /\ "\\" \in Chars(LastNode.Literal)
    /\ "a" \in Chars(LastNode.Literal)
    /\ Len(last.w) = Len(LastNode.Literal) + 15

\* The render state a visitor call on the current tree starts from when the
\* quote state is (q, qo).
StateFrom(q, qo) ==
    [w |-> <<>>, Flags |-> Flags, EnvQuotation |-> EnvQuotation,
     HtmlBlockHandler |-> HtmlBlockHandler,
     quoted |-> q, quoteOpen |-> qo, tree |-> tree,
     status |-> "GoToNext", panic |-> FALSE, msg |-> <<>>]

\* The rendering of every node under the footnote node f, f excluded, from
\* the quote state (q, qo).
FootnoteBody(f, q, qo) == walkFootnote(StateFrom(q, qo), f, f, TRUE).w

\* C2: when the link is not suppressed, entering a Link with a non-zero
\* note id writes \footnote{, the rendering of the nodes under the footnote
\* node, and }; leaving it writes nothing.
C2_FootnoteRendered ==
    (/\ LastIs("Link")
     /\ LastNode.NoteID # 0
     /\ ~needSkipLink(Flags, LastNode.Destination))
    => IF last.entering
       THEN last.w = <<"\\", "f", "o", "o", "t", "n", "o", "t", "e", "{">>
                     \o FootnoteBody(LastNode.Footnote, last.quoted0, last.quoteOpen0)
                     \o <<"}">>
       ELSE last.w = <<>>

IsBareLink(node) ==
    /\ node.FirstChild # NIL
    /\ node.FirstChild = node.LastChild
    /\ tree[node.FirstChild].Type = "Text"
    /\ tree[node.FirstChild].Literal = node.Destination

\* C4: under SkipLinks a Link whose only child is the destination as text
\* is visited once, writes \nolinkurl{destination} and has its children
\* skipped; any other Link with children writes nothing on entering, has
\* its children rendered and writes \footnote{\nolinkurl{destination}} on
\* leaving.
C4_SkipLinks ==
    (LastIs("Link") /\ "SkipLinks" \in Flags /\ LastNode.FirstChild # NIL)
    => /\ ~last.panic
       /\ IF IsBareLink(LastNode)
          THEN /\ last.entering
               /\ last.w = <<"\\", "n", "o", "l", "i", "n", "k", "u", "r", "l", "{">> \o LastNode.Destination \o <<"}">>
               /\ last.status = "SkipChildren"
          ELSE IF last.entering
               THEN last.w = <<>> /\ last.status = "GoToNext"
               ELSE last.w = <<"\\", "f", "o", "o", "t", "n", "o", "t", "e", "{", "\\", "n", "o", "l", "i", "n", "k", "u", "r", "l", "{">>
                             \o LastNode.Destination \o <<"}", "}">>

\* C4 happens: under SkipLinks a link with the text foo has been left, the
\* text written before the footnote.
C4_Witness ==
    /\ LastIs("Link")
    /\ "SkipLinks" \in Flags
    /\ LastNode.FirstChild # NIL
    /\ ~IsBareLink(LastNode)
    /\ ~last.entering
    /\ out = <<"a", "f", "o", "o", "\\", "f", "o", "o", "t", "n", "o", "t", "e", "{", "\\", "n", "o", "l", "i", "n", "k", "u", "r", "l", "{">> \o LastNode.Destination \o <<"}", "}">>

\* The literals of all nodes of the tree, in document order.
AllText == Flatten([i \in 1..Len(tree) |-> tree[i].Literal])

\* C5: the straight double quotes of the escaped text of one render are
\* replaced in turn by an opening and a different closing quote mark, the
\* first by the opening one, and none is copied to the output.
C5_QuotesAlternate ==
    (pc = "done" /\ (\A i \in 1..Len(tree) : tree[i].Type \in {"Document", "Text"})
                 /\ "'" \notin Chars(AllText))
    => \E open, close \in {LDQUO, "RDQUO", LSQUO, RSQUO} :
           /\ open # close
           /\ LET RECURSIVE Quoted(_, _)
                  Quoted(text, odd) ==
                      IF text = <<>> THEN <<>>
                      ELSE IF Head(text) = "\""
                           THEN <<IF odd THEN open ELSE close>> \o Quoted(Tail(text), ~odd)
                           ELSE Escaped(Head(text)) \o Quoted(Tail(text), odd)
              IN  out = Quoted(AllText, TRUE)

\* C6: every apostrophe of an escaped text is written as one glyph: the
\* opening one at the start of the text or after whitespace or a period,
\* the closing one anywhere else.
C6_ApostropheGlyph ==
    (LastIs("Text") /\ "\"" \notin Chars(LastNode.Literal))
    => /\ ~last.panic
       /\ last.w =
            Flatten([i \in 1..Len(LastNode.Literal) |->
                IF LastNode.Literal[i] = "'"
                THEN IF i = 1 \/ LastNode.Literal[i - 1] \in {" ", "\t", "\n", "\r", "."}
                     THEN <<LSQUO>>
                     ELSE <<RSQUO>>
                ELSE Escaped(LastNode.Literal[i])])

\* The bytes of lo..hi that do not occur in text.
Free(text, lo, hi) == {k \in lo..hi : Byte(k) \notin Chars(text)}

\* C7: an inline-code literal that does not start with "$$ " and lacks a
\* byte of '!'..')' or of '+'..'~' is written as \lstinline, the delimiter,
\* the literal and the delimiter again; the delimiter is the smallest byte
\* of '!'..')' not in the literal, or without one the smallest of '+'..'~';
\* it is not in the literal and is neither '*' nor a space.
C7_Delimiter ==
    (/\ LastIs("Code")
     /\ ~HasPrefix(LastNode.Literal, <<"$", "$", " ">>)
     /\ Free(LastNode.Literal, 33, 41) \cup Free(LastNode.Literal, 43, 126) # {})
    => LET lit == LastNode.Literal
           d   == IF Free(lit, 33, 41) # {}
                  THEN Byte(MinOrNil(Free(lit, 33, 41)))
                  ELSE Byte(MinOrNil(Free(lit, 43, 126)))
       IN  /\ last.w = <<"\\", "l", "s", "t", "i", "n", "l", "i", "n", "e">> \o <<d>> \o lit \o <<d>>
           /\ d \notin Chars(lit)
           /\ d \notin {"*", " "}

\* C7 happens: a literal with every byte of '!'..')' and without '*' has
\* been rendered with a delimiter of the second range.
C7_Witness ==
    /\ LastIs("Code")
    /\ ~HasPrefix(LastNode.Literal, <<"$", "$", " ">>)
    /\ Free(LastNode.Literal, 33, 41) = {}
    /\ "*" \notin Chars(LastNode.Literal)
    /\ Free(LastNode.Literal, 43, 126) # {}
    /\ Len(last.w) = Len(LastNode.Literal) + 12

\* C8: an inline-code literal with every byte of '!'..'~' is written as the
\* rendering error marker, and the render does not fail.
C8_NoDelimiter ==
    (/\ LastIs("Code")
     /\ ~HasPrefix(LastNode.Literal, <<"$", "$", " ">>)
     /\ Free(LastNode.Literal, 33, 126) = {})
    => /\ ~last.panic
       /\ last.w = <<"\\", "l", "s", "t", "i", "n", "l", "i", "n", "e", "!", "<", "R", "E", "N", "D", "E", "R", "I", "N", "G", " ", "E", "R", "R", "O", "R", ":", " ", "n", "o", " ", "d", "e", "l", "i", "m", "i", "t", "e", "r", " ", "f", "o", "u", "n", "d", ">", "!">>

\* The command of a heading level: the sectioning commands from chapter
\* down for the levels 1 to 6, bold text above.
SectionCommand(level) ==
    CASE level = 1 -> <<"c", "h", "a", "p", "t", "e", "r">>
      [] level = 2 -> <<"s", "e", "c", "t", "i", "o", "n">>
      [] level = 3 -> <<"s", "u", "b", "s", "e", "c", "t", "i", "o", "n">>
      [] level = 4 -> <<"s", "u", "b", "s", "u", "b", "s", "e", "c", "t", "i", "o", "n">>
      [] level = 5 -> <<"p", "a", "r", "a", "g", "r", "a", "p", "h">>
      [] level = 6 -> <<"s", "u", "b", "p", "a", "r", "a", "g", "r", "a", "p", "h">>
      [] OTHER     -> <<"t", "e", "x", "t", "b", "f">>

\* The heading whose visitor call was made last is rendered as a heading
\* without config.
LastIsPlainHeading ==
    LastIs("Heading") /\ ~LastNode.IsTitleblock /\ LastNode.Config = <<>>

C10_TestSection ==
    (LastIsPlainHeading /\ (LastNode.Level \in {1, 2, 3, 4} \/ LastNode.Level >= 7))
    => IF last.entering
       THEN last.w = (CASE LastNode.Level = 1 -> <<"\\", "s", "e", "c", "t", "i", "o", "n", "{">>
                        [] LastNode.Level = 2 -> <<"\\", "s", "u", "b", "s", "e", "c", "t", "i", "o", "n", "{">>
                        [] LastNode.Level = 3 -> <<"\\", "s", "u", "b", "s", "u", "b", "s", "e", "c", "t", "i", "o", "n", "{">>
                        [] LastNode.Level = 4 -> <<"\\", "p", "a", "r", "a", "g", "r", "a", "p", "h", "{">>
                        [] OTHER              -> <<"\\", "t", "e", "x", "t", "b", "f", "{">>)
       ELSE last.w = (IF LastNode.Level <= 3 THEN <<"}", "\n">> ELSE <<"}", " ">>)


----------------------------------------------------------------------------
(* The title block.                                                        *)

\* The node n lies below a heading flagged as title block.
RECURSIVE InTitleblock(_)
InTitleblock(n) ==
    LET p == tree[n].Parent IN
    /\ p # NIL
    /\ \/ tree[p].Type = "Heading" /\ tree[p].IsTitleblock
       \/ InTitleblock(p)

\* C11: in the body walk of Render the visitor call on a heading flagged
\* as title block writes nothing and skips the heading's children, and no
\* visitor call is made on a node below a title block.
C11_TitleblockSilent ==
    last.node # NIL
    => /\ ~InTitleblock(last.node)
       /\ (LastIs("Heading") /\ LastNode.IsTitleblock)
          => /\ last.w = <<>>
             /\ last.entering
             /\ last.status = "SkipChildren"
             /\ ~last.panic

\* C11 happens: the body walk of a complete page has met a title block
\* with children, whose title the header has written.
C11_Witness ==
    /\ LastIs("Heading")
    /\ LastNode.IsTitleblock
    /\ LastNode.FirstChild # NIL
    /\ "CompletePage" \in Flags
    /\ header # <<>>
    /\ out = header

----------------------------------------------------------------------------
(* Images.                                                                 *)

\* The lower-case letter of an upper-case letter of a scheme.
lowerCase(c) ==
    CASE c = "H" -> "h" [] c = "T" -> "t" [] c = "P" -> "p" [] c = "S" -> "s"
      [] OTHER -> c

\* The destination starts with http:// or https:// in any letter case.
IsWebAddress(dest) ==
    LET low == [i \in 1..Len(dest) |-> lowerCase(dest[i])] IN
    HasPrefix(low, <<"h", "t", "t", "p", ":", "/", "/">>) \/ HasPrefix(low, <<"h", "t", "t", "p", "s", ":", "/", "/">>)

\* C12: entering an Image whose destination starts with http:// or
\* https:// in any letter case writes only \url{destination}; any other
\* Image writes a center environment around an \includegraphics of the
\* destination without its file extension, wrapped in a figure with the
\* title as caption exactly when a title is present; the children of an
\* Image are never rendered.
C12_ImageRendering ==
    /\ last.node # NIL
       => (tree[last.node].Parent = NIL
           \/ tree[tree[last.node].Parent].Type # "Image")
    /\ LastIs("Image")
       => /\ last.status = "SkipChildren"
          /\ last.entering
          /\ LET dest == LastNode.Destination
                 path == SubSeq(dest, 1, Len(dest) - Len(Ext(dest)))
                 center ==
                   <<"\\", "b", "e", "g", "i", "n", "{", "c", "e", "n", "t", "e", "r", "}", "\n">>
                   \o <<"\\", "i", "n", "c", "l", "u", "d", "e", "g", "r", "a", "p", "h", "i", "c", "s", "[", "m", "a", "x", " ", "w", "i", "d", "t", "h", "=", "\\", "t", "e", "x", "t", "w", "i", "d", "t", "h", ",", " ", "m", "a", "x", " ", "h", "e", "i", "g", "h", "t", "=", "\\", "t", "e", "x", "t", "h", "e", "i", "g", "h", "t", "]", "{">>
                   \o path \o <<"}", "\n", "\\", "e", "n", "d", "{", "c", "e", "n", "t", "e", "r", "}", "\n">>
             IN last.w =
                  IF IsWebAddress(dest) THEN <<"\\", "u", "r", "l", "{">> \o dest \o <<"}">>
                  ELSE IF LastNode.TitleNil THEN center
                  ELSE <<"\\", "b", "e", "g", "i", "n", "{", "f", "i", "g", "u", "r", "e", "}", "[", "!", "h", "t", "]", "\n">> \o center
                       \o <<"\\", "c", "a", "p", "t", "i", "o", "n", "{">> \o LastNode.Title
                       \o <<"}", "\n", "\\", "e", "n", "d", "{", "f", "i", "g", "u", "r", "e", "}", "\n">>

----------------------------------------------------------------------------
(* Tables.                                                                 *)

\* The node n lies below the node a.
RECURSIVE Below(_, _)
Below(n, a) ==
    LET p == tree[n].Parent IN
    p # NIL /\ (p = a \/ Below(p, a))

\* The cells from the cell c to the end of its row.
RECURSIVE CellsFrom(_)
CellsFrom(c) == IF c = NIL THEN <<>> ELSE <<c>> \o CellsFrom(tree[c].Next)

\* The cells of the first row of the table n: the nodes are numbered in
\* the order of the walk, so the first cell is the one of the least index.
FirstRow(n) ==
    CellsFrom(MinOrNil({c \in 1..Len(tree) :
                            tree[c].Type = "TableCell" /\ Below(c, n)}))

\* The table has no border flag set.
NoBorder(n) ==
    LET b == tree[n].Border IN
    ~(b.Left \/ b.Rigth \/ b.Top \/ b.Bottom \/ b.Column \/ b.Row)

\* The cell has no options: no options map, or a map without entries.
NoOptions(c) ==
    tree[c].OptsNil \/ (tree[c].OptsWidth = <<>> /\ tree[c].OptsSep = "absent")

\* The column letter of an alignment.
ColumnLetter(align) ==
    CASE align = "Center" -> "c"
      [] align = "Right"  -> "r"
      [] OTHER            -> "l"

\* C13: for a table with no border flags and no per-cell options, the
\* column specification written on entering the table has one character
\* per cell of the first row, in cell order: l for default or left
\* alignment, c for center, r for right, and no | separator.
C13_ColumnSpec ==
    (/\ LastIs("Table")
     /\ last.entering
     /\ NoBorder(last.node)
     /\ \A i \in 1..Len(FirstRow(last.node)) :
            NoOptions(FirstRow(last.node)[i]))
    => LET row == FirstRow(last.node) IN
       last.w = <<"\\", "b", "e", "g", "i", "n", "{", "c", "e", "n", "t", "e", "r", "}", "\n", "\\", "b", "e", "g", "i", "n", "{", "t", "a", "b", "u", "l", "a", "r", "}", "{">>
                \o [i \in 1..Len(row) |-> ColumnLetter(tree[row[i]].Align)]
                \o <<"}", "\n">>

\* C13 happens: a table without borders or options whose first row has
\* cells aligned by default, left, center and right has been entered and
\* given the column specification llcr.
C13_Witness ==
    /\ LastIs("Table")
    /\ last.entering
    /\ NoBorder(last.node)
    /\ LET row == FirstRow(last.node) IN
        /\ Len(row) = 4
        /\ [i \in 1..4 |-> tree[row[i]].Align] = <<"", "Left", "Center", "Right">>
        /\ \A i \in 1..4 : NoOptions(row[i])
    /\ last.w = <<"\\", "b", "e", "g", "i", "n", "{", "c", "e", "n", "t", "e", "r", "}", "\n", "\\", "b", "e", "g", "i", "n", "{", "t", "a", "b", "u", "l", "a", "r", "}", "{", "l", "l", "c", "r", "}", "\n">>

\* C14: leaving a table row writes the terminator, a space, two
\* backslashes and a newline, with \hline before the newline exactly when
\* the row-border flag is set, the row is a row of the body and not its
\* last one; leaving a cell writes the separator " & " unless it is the
\* last cell of its row; a header cell is wrapped in \textbf{}; leaving
\* the header group writes \hline once.
C14_TableRows ==
    /\ LastIs("TableRow")
       => /\ ~last.panic
          /\ LET body  == tree[LastNode.Parent]
                 table == tree[body.Parent]
                 ruled == /\ table.Border.Row
                          /\ body.Type = "TableBody"
                          /\ ~LastNode.RowIsLast
             IN last.w = IF last.entering THEN <<>>
                         ELSE IF ruled THEN <<" ", "\\", "\\", " ", "\\", "h", "l", "i", "n", "e", "\n">>
                         ELSE <<" ", "\\", "\\", "\n">>
    /\ LastIs("TableCell")
       => last.w = (IF LastNode.IsHeader
                    THEN IF last.entering THEN <<"\\", "t", "e", "x", "t", "b", "f", "{">> ELSE <<"}">>
                    ELSE <<>>)
                   \o (IF ~last.entering /\ LastNode.Next # NIL
                       THEN <<" ", "&", " ">> ELSE <<>>)
    /\ LastIs("TableHead")
       => last.w = IF last.entering THEN <<>> ELSE <<"\\", "h", "l", "i", "n", "e", "\n">>

\* C14 happens: a row of the body that is not the last one has been left
\* in a table with the row-border flag, and its terminator carries \hline.
C14_Witness ==
    /\ LastIs("TableRow")
    /\ ~last.entering
    /\ tree[LastNode.Parent].Type = "TableBody"
    /\ tree[tree[LastNode.Parent].Parent].Border.Row
    /\ LastNode.Next # NIL
    /\ ~LastNode.RowIsLast
    /\ last.w = <<" ", "\\", "\\", " ", "\\", "h", "l", "i", "n", "e", "\n">>

----------------------------------------------------------------------------
(* Lists.                                                                  *)

\* The environment of a list.
ListEnvironment(flags) ==
    IF "Definition" \in flags THEN <<"d", "e", "s", "c", "r", "i", "p", "t", "i", "o", "n">>
    ELSE IF "Ordered" \in flags THEN <<"e", "n", "u", "m", "e", "r", "a", "t", "e">>
    ELSE <<"i", "t", "e", "m", "i", "z", "e">>

\* The node n lies below a footnotes list.
InFootnotesList(n) ==
    \E a \in 1..Len(tree) :
        tree[a].Type = "List" /\ tree[a].IsFootnotesList /\ Below(n, a)

\* C15: a List is rendered as the environment description if its
\* definition flag is set, else enumerate if its ordered flag is set, else
\* itemize; a footnotes list writes nothing and its children are skipped;
\* an Item writes "\item [" on entering and "] " on leaving when it is a
\* definition term, nothing when it is a definition body, and "\item " on
\* entering otherwise.
C15_ListsAndItems ==
    /\ last.node # NIL => ~InFootnotesList(last.node)
    /\ LastIs("List")
       => IF LastNode.IsFootnotesList
          THEN last.w = <<>> /\ last.status = "SkipChildren"
          ELSE last.w =
                 IF last.entering
                 THEN <<"\\", "b", "e", "g", "i", "n", "{">> \o ListEnvironment(LastNode.ListFlags) \o <<"}", "\n">>
                 ELSE <<"\\", "e", "n", "d", "{">> \o ListEnvironment(LastNode.ListFlags) \o <<"}", "\n", "\n">>
    /\ LastIs("Item")
       => last.w =
            IF "Term" \in LastNode.ListFlags
            THEN IF last.entering THEN <<"\\", "i", "t", "e", "m", " ", "[">> ELSE <<"]", " ">>
            ELSE IF "Definition" \in LastNode.ListFlags THEN <<>>
            ELSE IF last.entering THEN <<"\\", "i", "t", "e", "m", " ">> ELSE <<>>

\* C15 happens: the term of a list with the definition and the ordered
\* flag has been left, in the output after \begin{description}.
C15_Witness ==
    /\ LastIs("Item")
    /\ "Term" \in LastNode.ListFlags
    /\ ~last.entering
    /\ last.w = <<"]", " ">>
    /\ tree[LastNode.Parent].ListFlags = {"Ordered", "Definition"}
    /\ HasPrefix(out, <<"\\", "b", "e", "g", "i", "n", "{", "d", "e", "s", "c", "r", "i", "p", "t", "i", "o", "n", "}", "\n", "\\", "i", "t", "e", "m", " ", "[", "f", "o", "o", "]", " ">>)

----------------------------------------------------------------------------
(* Block quotes.                                                           *)

\* The literals of the nodes the walk reaches from the node c on: c, its
\* children and its following siblings.
RECURSIVE ReachFrom(_)
ReachFrom(c) ==
    IF c = NIL THEN <<>>
    ELSE tree[c].Literal \o ReachFrom(tree[c].FirstChild) \o ReachFrom(tree[c].Next)

\* The text the walk finds below the node n.
BodyText(n) == ReachFrom(tree[n].FirstChild)

\* The visitor call made last entered a BlockQuote and wrote an argument
\* after the name of the environment.
LastExtracted ==
    /\ LastIs("BlockQuote")
    /\ last.entering
    /\ ~last.panic
    /\ last.w # <<"\\", "b", "e", "g", "i", "n", "{">> \o EnvQuotation \o <<"}", "\n">>

\* C16: whenever entering a BlockQuote extracts an attribution, the
\* environment opens as \begin{ENV}{attribution} with the attribution
\* trimmed of surrounding whitespace, and the attribution line is no
\* longer in the tree below the quote.  The attribution of every quote
\* rendered is A, on the only line with a hyphen.
C16_Attribution ==
    LastExtracted
    => /\ last.w = <<"\\", "b", "e", "g", "i", "n", "{">> \o EnvQuotation \o <<"}", "{", "A", "}", "\n">>
       /\ "-" \notin Chars(BodyText(last.node))

\* C17: for every Renderer whose quotation-environment option is left
\* unset, whether created by NewRenderer, constructed directly from Opts
\* or created inside Run, a BlockQuote is rendered as \begin{quotation}
\* and \end{quotation}.
C17_DefaultQuotation ==
    (LastIs("BlockQuote") /\ ~last.panic /\ made.EnvQuotation = <<>>)
    => IF last.entering
       THEN HasPrefix(last.w, <<"\\", "b", "e", "g", "i", "n", "{", "q", "u", "o", "t", "a", "t", "i", "o", "n", "}">>)
       ELSE last.w = <<"\\", "e", "n", "d", "{", "q", "u", "o", "t", "a", "t", "i", "o", "n", "}", "\n", "\n">>

----------------------------------------------------------------------------
(* The header and the footer of a page.                                    *)

\* The least position from which sub occurs in str at or after the
\* position from, or 0.
IndexFrom(str, sub, from) ==
    MinOrNil({i \in from..(Len(str) - Len(sub) + 1) :
                SubSeq(str, i, i + Len(sub) - 1) = sub})

\* str ends with suffix.
HasSuffix(str, suffix) ==
    /\ Len(str) >= Len(suffix)
    /\ SubSeq(str, Len(str) - Len(suffix) + 1, Len(str)) = suffix

\* C18: when the CompletePage flag is set, Render writes a preamble that
\* starts with \documentclass and reaches \begin{document} before any
\* body output, and \end{document} after all body output; when the flag
\* is not set, the header and the footer write nothing of them.
C18_PageFrame ==
    /\ pc = "header" => out = <<>>
    /\ pc # "done" => footer = <<>>
    /\ HasPrefix(out, header)
    /\ pc \in {"walk", "footer", "done"}
       => IF "CompletePage" \in Flags
          THEN /\ HasPrefix(header, <<"\\", "d", "o", "c", "u", "m", "e", "n", "t", "c", "l", "a", "s", "s">>)
               /\ IndexFrom(header, <<"\n", "\\", "b", "e", "g", "i", "n", "{", "d", "o", "c", "u", "m", "e", "n", "t", "}", "\n">>, 1) # NIL
               /\ IndexFrom(header, <<"\\", "e", "n", "d", "{", "d", "o", "c", "u", "m", "e", "n", "t", "}">>, 1) = NIL
          ELSE /\ IndexFrom(header, <<"\\", "d", "o", "c", "u", "m", "e", "n", "t", "c", "l", "a", "s", "s">>, 1) = NIL
               /\ IndexFrom(header, <<"\\", "b", "e", "g", "i", "n", "{", "d", "o", "c", "u", "m", "e", "n", "t", "}">>, 1) = NIL
    /\ pc = "done"
       => /\ footer = IF "CompletePage" \in Flags
                      THEN <<"\\", "e", "n", "d", "{", "d", "o", "c", "u", "m", "e", "n", "t", "}", "\n">> ELSE <<>>
          /\ HasSuffix(out, footer)
          /\ Len(out) >= Len(header) + Len(footer)

\* C18 happens: a complete page has been rendered to its end, with body
\* output between the header and the footer.
C18_Witness ==
    /\ pc = "done"
    /\ "CompletePage" \in Flags
    /\ footer = <<"\\", "e", "n", "d", "{", "d", "o", "c", "u", "m", "e", "n", "t", "}", "\n">>
    /\ Len(out) > Len(header) + Len(footer)
    /\ HasSuffix(header, <<"\n", "\\", "b", "e", "g", "i", "n", "{", "d", "o", "c", "u", "m", "e", "n", "t", "}", "\n", "\n", "\n">>)

\* The document has a title block whose text is not blank.
HasTitle == TrimSpace(getTitle(tree).w) # <<>>

\* C19: when the ChapterTitle flag is set and CompletePage is not, and the
\* document has a title block whose text is not blank, the header is
\* \chapter{title} followed by a blank line, with the title extracted
\* from the title block.
C19_ChapterTitle ==
    (/\ pc \in {"walk", "footer", "done"}
     /\ "ChapterTitle" \in Flags
     /\ "CompletePage" \notin Flags
     /\ HasTitle)
    => header = <<"\\", "c", "h", "a", "p", "t", "e", "r", "{">> \o getTitle(tree).w \o <<"}", "\n", "\n">>

\* C20: in the header of a document rendered with the CompletePage and
\* TOC flags, \tableofcontents follows \begin{document} and \clearpage
\* follows \tableofcontents; with CompletePage and without TOC the header
\* has neither.
C20_TableOfContents ==
    (pc \in {"walk", "footer", "done"} /\ "CompletePage" \in Flags)
    => LET doc == IndexFrom(header, <<"\\", "b", "e", "g", "i", "n", "{", "d", "o", "c", "u", "m", "e", "n", "t", "}", "\n">>, 1)
           toc == IndexFrom(header, <<"\\", "t", "a", "b", "l", "e", "o", "f", "c", "o", "n", "t", "e", "n", "t", "s", "\n">>, 1)
           clr == IndexFrom(header, <<"\\", "c", "l", "e", "a", "r", "p", "a", "g", "e", "\n">>, 1)
       IN  IF "TOC" \in Flags
           THEN doc # NIL /\ toc > doc /\ clr > toc
           ELSE toc = NIL /\ clr = NIL

----------------------------------------------------------------------------
(* Node types.                                                             *)

\* C21: RenderNode on a node whose type is not one of the recognized
\* types writes nothing and panics with the message "Unknown node type"
\* followed by the name of the type; no call on a node of a recognized
\* type panics with that message.
C21_UnknownType ==
    last.node # NIL
    => IF LastNode.Type \in NodeTypes
       THEN last.msg = <<>>
       ELSE /\ last.panic
            /\ last.w = <<>>
            /\ last.msg = <<"U", "n", "k", "n", "o", "w", "n", " ", "n", "o", "d", "e", " ", "t", "y", "p", "e", " ">> \o <<LastNode.Type>>
            /\ pc = "panic"

\* C21 happens: the walk has met a node of an unrecognized type and the
\* render has stopped there with the message naming it.
C21_Witness ==
    /\ last.node # NIL
    /\ LastNode.Type = UnknownType
    /\ last.panic
    /\ last.msg = <<"U", "n", "k", "n", "o", "w", "n", " ", "n", "o", "d", "e", " ", "t", "y", "p", "e", " ">> \o <<UnknownType>>
    /\ pc = "panic"

----------------------------------------------------------------------------
(* Two renders of a tree.                                                  *)

\* C22: the second render of a tree, by a fresh Renderer built from the
\* same options, writes the output the first render wrote.
C22_SameOutput ==
    (prior.done /\ pc = "done") => out = prior.out

----------------------------------------------------------------------------
(* The raw-LaTeX convention of HTML blocks.                                *)

\* The literal has the form "<!-- :: KEY", newline, content, "-->".
IsRawBlock(str) ==
    /\ HasPrefix(str, <<"<", "!", "-", "-", " ", ":", ":", " ">>)
    /\ IndexNewline(str) > 0
    /\ HasSuffix(str, <<"-", "-", ">">>)
    /\ Len(str) >= IndexNewline(str) + 1 + 3

\* The KEY of a literal of that form.
RawKey(str) == SubSeq(str, 9, IndexNewline(str))

\* The content of a literal of that form, without the closing "-->" and
\* surrounding whitespace.
RawContent(str) ==
    TrimSpace(SubSeq(str, IndexNewline(str) + 2, Len(str) - 3))

\* C23: with the handler of Exec installed, the visitor call on an HTML
\* block of the form "<!-- :: KEY", newline, content, "-->" appends the
\* trimmed content to the values of the id KEY and writes nothing when KEY
\* is a configured id, writes the trimmed content and a blank line when
\* KEY is empty, and does nothing when KEY is not configured.
C23_RawBlocks ==
    [][(/\ pc = "walk"
        /\ cur # NIL
        /\ tree[cur].Type = "HTMLBlock"
        /\ HtmlBlockHandler.installed
        /\ IsRawBlock(tree[cur].Literal))
       => LET key     == RawKey(tree[cur].Literal)
              content == RawContent(tree[cur].Literal)
              files   == HtmlBlockHandler.LatexRawFiles
          IN  IF key \in DOMAIN files
              THEN /\ out' = out
                   /\ HtmlBlockHandler'.LatexRawFiles =
                        [files EXCEPT ![key] = Append(@, content)]
              ELSE IF key = <<>>
              THEN /\ out' = out \o content \o <<"\n", "\n">>
                   /\ HtmlBlockHandler' = HtmlBlockHandler
              ELSE /\ out' = out
                   /\ HtmlBlockHandler' = HtmlBlockHandler]_vars

----------------------------------------------------------------------------
(* Panics.                                                                 *)

\* Every node of the tree has a recognized type.
Recognized == \A n \in 1..Len(tree) : tree[n].Type \in NodeTypes

\* C24: the render of a tree made only of recognized node types never
\* panics, whatever the flags, the text and the quote state.
C24_NeverPanics ==
    Recognized => (pc # "panic" /\ ~last.panic)

----------------------------------------------------------------------------
(* The borders of the column specification.                                *)

\* The column specification in the bytes w written on entering the table
\* n: what stands between "\begin{tabular}{" and the closing brace.
ColumnSpec(w, n) ==
    LET before == <<"\\", "b", "e", "g", "i", "n", "{", "c", "e", "n", "t", "e", "r", "}", "\n", "\\", "b", "e", "g", "i", "n", "{", "t", "a", "b", "u", "l", "a", "r", "}", "{">>
        after  == <<"}", "\n">> \o (IF tree[n].Border.Top THEN <<"\\", "h", "l", "i", "n", "e", "\n">> ELSE <<>>)
    IN  SubSeq(w, Len(before) + 1, Len(w) - Len(after))

\* The visitor call made last entered a table that has cells.
LastEnteredTable ==
    LastIs("Table") /\ last.entering /\ FirstRow(last.node) # <<>>

\* C25: the column specification starts with | exactly when the left
\* border flag is set and ends with | exactly when the right border flag
\* is set, and never ends with two of them, whatever the options of the
\* cells.
C25_OuterBorders ==
    LastEnteredTable
    => LET b  == LastNode.Border
           cs == ColumnSpec(last.w, last.node)
       IN  /\ HasPrefix(cs, <<"|">>) <=> b.Left
           /\ HasSuffix(cs, <<"|">>) <=> b.Rigth
           /\ ~HasSuffix(cs, <<"|", "|">>)

\* The column specifier of the cell c: a paragraph column of the width of
\* its width option with the alignment of the cell, or the letter of its
\* alignment.
CellSpecifier(c) ==
    IF ~tree[c].OptsNil /\ tree[c].OptsWidth # <<>>
    THEN <<"p", "{">> \o tree[c].OptsWidth \o <<"\\", "t", "e", "x", "t", "w", "i", "d", "t", "h", "}">>
         \o (CASE tree[c].Align = "Right"  -> <<"<", "{", "\\", "r", "a", "g", "g", "e", "d", "l", "e", "f", "t", "\\", "a", "r", "r", "a", "y", "b", "a", "c", "k", "s", "l", "a", "s", "h", "}">>
               [] tree[c].Align = "Center" -> <<"<", "{", "\\", "c", "e", "n", "t", "e", "r", "i", "n", "g", "\\", "a", "r", "r", "a", "y", "b", "a", "c", "k", "s", "l", "a", "s", "h", "}">>
               [] OTHER                    -> <<>>)
    ELSE <<ColumnLetter(tree[c].Align)>>

\* From the position pos of the column specification cs on stand the
\* specifiers of the cells row[i], row[i+1], ..., each cell that is not
\* the last one followed by | exactly when its sep option says so or,
\* without that option, when the column border flag is set.
RECURSIVE SeparatorsFollowOptions(_, _, _, _, _)
SeparatorsFollowOptions(cs, row, i, pos, column) ==
    i > Len(row)
    \/ LET c     == row[i]
           spec  == CellSpecifier(c)
           next  == pos + Len(spec)
           bar   == next <= Len(cs) /\ cs[next] = "|"
           asked == IF ~tree[c].OptsNil /\ tree[c].OptsSep # "absent"
                    THEN tree[c].OptsSep = "true"
                    ELSE column
       IN  /\ next - 1 <= Len(cs)
           /\ SubSeq(cs, pos, next - 1) = spec
           /\ i < Len(row) => (bar <=> asked)
           /\ SeparatorsFollowOptions(cs, row, i + 1,
                                      IF bar THEN next + 1 ELSE next, column)

\* C26: after the column of a cell that is not the last of its row and
\* carries a sep option, | is written exactly when the option is true,
\* whatever the column border flag; a width option changes the specifier
\* of the column only, and not the separators.
C26_SeparatorOption ==
    LastEnteredTable
    => LET cs == ColumnSpec(last.w, last.node) IN
       SeparatorsFollowOptions(cs, FirstRow(last.node),
                               1, IF LastNode.Border.Left THEN 2 ELSE 1,
                               LastNode.Border.Column)

----------------------------------------------------------------------------
(* Paragraphs.                                                             *)

\* The paragraph n is the term of a definition-list item.
IsTerm(n) ==
    /\ tree[tree[n].Parent].Type = "Item"
    /\ "Term" \in tree[tree[n].Parent].ListFlags

\* C27: entering a Paragraph writes nothing; leaving a Paragraph that is
\* not the term of a definition-list item writes one newline, and a
\* second one exactly when the paragraph has a next sibling; leaving a
\* Paragraph that is the term of a definition-list item writes nothing.
C27_ParagraphBreaks ==
    (LastIs("Paragraph") /\ LastNode.Parent # NIL)
    => /\ ~last.panic
       /\ last.w = IF last.entering \/ IsTerm(last.node) THEN <<>>
                   ELSE IF LastNode.Next # NIL THEN <<"\n", "\n">>
                   ELSE <<"\n">>

\* C27 happens: the paragraph of a term has been left without a line
\* break, after the paragraph of an item before it was left with one.
C27_Witness ==
    /\ LastIs("Paragraph")
    /\ ~last.entering
    /\ IsTerm(last.node)
    /\ last.w = <<>>
    /\ HasSuffix(out, <<"f", "o", "o", "\n", "\\", "i", "t", "e", "m", " ", "[", "b", "a", "r">>)

----------------------------------------------------------------------------
(* The list of figures.                                                    *)

\* C28: \listoffigures is in the header exactly when \tableofcontents is
\* and the body of the rendered document has a \begin{figure}.
C28_ListOfFigures ==
    pc = "done"
    => LET lof == IndexFrom(header, <<"\\", "l", "i", "s", "t", "o", "f", "f", "i", "g", "u", "r", "e", "s", "\n">>, 1) # NIL
           toc == IndexFrom(header, <<"\\", "t", "a", "b", "l", "e", "o", "f", "c", "o", "n", "t", "e", "n", "t", "s", "\n">>, 1) # NIL
           fig == IndexFrom(out, <<"\\", "b", "e", "g", "i", "n", "{", "f", "i", "g", "u", "r", "e", "}">>, Len(header) + 1) # NIL
       IN  lof <=> (toc /\ fig)

----------------------------------------------------------------------------
(* The edits of the tree.                                                  *)

\* The node x is on the list of siblings that starts at c in the tree t.
RECURSIVE OnList(_, _, _)
OnList(t, c, x) == c # NIL /\ (c = x \/ OnList(t, t[c].Next, x))

\* The child list of every node of the tree t is consistent: the last
\* child is reachable from the first child through the next-sibling links
\* and has no next sibling.
ChildListsConsistent(t) ==
    \A p \in 1..Len(t) :
        IF t[p].FirstChild = NIL THEN t[p].LastChild = NIL
        ELSE /\ t[p].LastChild # NIL
             /\ OnList(t, t[p].FirstChild, t[p].LastChild)
             /\ t[t[p].LastChild].Next = NIL

\* The step is the visitor call entering a BlockQuote.
EntersBlockQuote ==
    pc = "walk" /\ cur # NIL /\ ent /\ tree[cur].Type = "BlockQuote"

\* C29 as stated: a step changes the tree only when it enters a
\* BlockQuote; the child lists are then still consistent and every node
\* outside the last paragraph of the block quote is unchanged.
C29_TreeFrame ==
    [][tree' # tree
       => /\ EntersBlockQuote
          /\ ChildListsConsistent(tree')
          /\ LET par == tree[cur].LastChild IN
             \A n \in 1..Len(tree) :
                (n # par /\ ~Below(n, par)) => tree'[n] = tree[n]]_vars

\* C29 corrected: a step changes the tree only when it enters a
\* BlockQuote; the child lists are then still consistent, and the nodes
\* changed are in the last paragraph of the block quote or, when that
\* paragraph is detached, are the block quote, whose last child becomes
\* the paragraph before, and that paragraph, which loses its next sibling.
C29_TreeEdit ==
    [][tree' # tree
       => /\ EntersBlockQuote
          /\ ChildListsConsistent(tree')
          /\ Len(tree') = Len(tree)
          /\ LET par  == tree[cur].LastChild
                 prev == tree[par].Prev
             IN  \A n \in 1..Len(tree) :
                    \/ tree'[n] = tree[n]
                    \/ n = par \/ Below(n, par)
                    \/ /\ n = cur
                       /\ prev # NIL
                       /\ tree'[n] = [tree[n] EXCEPT !.LastChild = prev]
                    \/ /\ n = prev
                       /\ prev # NIL
                       /\ tree'[n] = [tree[n] EXCEPT !.Next = NIL]]_vars

\* C29 happens: the block quote entered last has lost its last paragraph,
\* which held only the attribution: the paragraph before is its last
\* child now.
C29_Witness ==
    /\ LastIs("BlockQuote")
    /\ last.entering
    /\ \E par \in 1..Len(tree) :
        /\ tree[par].Type = "Paragraph"
        /\ tree[par].Parent = last.node
        /\ tree[par].Prev # NIL
        /\ LastNode.LastChild = tree[par].Prev
        /\ tree[tree[par].Prev].Next = NIL
        /\ ChildListsConsistent(tree)

----------------------------------------------------------------------------
(* The environments of the output.                                         *)

\* str has sub at the position i.
HasAt(str, sub, i) ==
    i + Len(sub) - 1 <= Len(str) /\ SubSeq(str, i, i + Len(sub) - 1) = sub

\* The positions of str where an environment is opened or closed.
EnvironmentMarks(str) ==
    {i \in 1..Len(str) :
        HasAt(str, <<"\\", "b", "e", "g", "i", "n", "{">>, i) \/ HasAt(str, <<"\\", "e", "n", "d", "{">>, i)}

\* The name of the environment that is opened or closed at the position i
\* of str: what stands between the brace and the next closing brace.
EnvironmentAt(str, i) ==
    LET from  == IF HasAt(str, <<"\\", "b", "e", "g", "i", "n", "{">>, i) THEN i + 7 ELSE i + 5
        close == IndexFrom(str, <<"}">>, from)
    IN  SubSeq(str, from, IF close = NIL THEN Len(str) ELSE close - 1)

\* Read from the lowest of the positions marks on, with the environments
\* of open still open, innermost last: every closing names the innermost
\* open environment, and none is left open at the end.
RECURSIVE ProperlyNested(_, _, _)
ProperlyNested(str, marks, open) ==
    IF marks = {} THEN open = <<>>
    ELSE LET i == MinOrNil(marks)
             E == EnvironmentAt(str, i)
         IN  IF HasAt(str, <<"\\", "b", "e", "g", "i", "n", "{">>, i)
             THEN ProperlyNested(str, marks \ {i}, Append(open, E))
             ELSE /\ open # <<>>
                  /\ open[Len(open)] = E
                  /\ ProperlyNested(str, marks \ {i},
                                    SubSeq(open, 1, Len(open) - 1))

\* C30: when a render without an HTML handler has come to its end, every
\* environment opened in the output is closed later by an \end of the
\* same name, and every \end closes the innermost environment still open.
C30_Environments ==
    (pc = "done" /\ ~HtmlBlockHandler.installed)
        => ProperlyNested(out, EnvironmentMarks(out), <<>>)

\* C30 happens: a render has come to its end and its output has an
\* environment opened inside another one and both closed.
C30_Witness ==
    /\ pc = "done"
    /\ ~HtmlBlockHandler.installed
    /\ \E i, j \in EnvironmentMarks(out) :
        /\ i < j
        /\ HasAt(out, <<"\\", "b", "e", "g", "i", "n", "{">>, i)
        /\ HasAt(out, <<"\\", "b", "e", "g", "i", "n", "{">>, j)
        /\ ~\E k \in EnvironmentMarks(out) : k > i /\ k < j
        /\ ProperlyNested(out, EnvironmentMarks(out), <<>>)
====
